---- MODULE Spec2Model ----
(***************************************************************************)
(* Model of the CH32V20x board support of BMCU_C-to-Klipper:               *)
(*   - the AT8236 virtual-pin layer of ch32v20x/gpio.c (step/dir logical   *)
(*     pins multiplexed on a high/low pair of physical outputs);           *)
(*   - the TIM2 tick timer of ch32v20x/timer.c and its start-up in         *)
(*     ch32v20x/main.c;                                                    *)
(*   - setjmp and longjmp of generic/setjmp.c.                             *)
(* Registers are modelled by their contents: an output data register is a  *)
(* 16-bit number, the two configuration registers of a port are 16 4-bit   *)
(* fields, a 32-bit word is a pair of 16-bit halves.                       *)
(***************************************************************************)
EXTENDS Integers, Naturals, Sequences, FiniteSets, TLC

VARIABLES
    at8236_channels,  \* gpio.c: static struct at8236_channel at8236_channels[4]
    OUTDR,            \* GPIOx->OUTDR of the 5 ports
    CFG,              \* GPIOx->CFGLR/CFGHR of the 5 ports, as 16 4-bit fields
    mie,              \* mstatus.MIE, the global interrupt enable
    handles,          \* the struct gpio_out values gpio_out_setup has returned
    acquired,         \* history: acquisitions done by at8236_configure, per channel
    last,             \* history: the digital-output call completed last
    gpc,              \* position of the digital-output call in progress
    gop,              \* the call in progress: its arguments and locals
    timer_base,       \* timer.c: static uint32_t timer_base
    TIM_CNT,          \* TIM2->CNT, the 16-bit counter
    TIM_ATRLR,        \* TIM2->ATRLR, the 16-bit auto-reload (period) register
    TIM_UIF,          \* TIM2->INTFR bit TIM_UIF, the pending update interrupt
    ldOrder,          \* the order in which the build loads timer_base and CNT
    mctx,             \* the mainline: the timer function it is in and its locals
    hstk,             \* the activations of TIM2_IRQHandler in progress, innermost last
    ticks,            \* history: counter ticks so far
    reads,            \* history: the results of the last two timer_read_time calls
    fold,             \* history: what the last TIM2_IRQHandler added to timer_base
    roll,             \* history: the counter periods elapsed and not yet added
    sn,               \* history: the last schedule_next call
    cpu,              \* the processor registers ra, sp, s0..s11, a0, a1 and pc
    env,              \* setjmp.h: the 14 words of a jmp_buf, by byte offset
    jhist,            \* history: the setjmp/longjmp calls and their returns
    boot,             \* riscv_main: its position and the initialisations done
    periph,           \* AFIO->PCFR1, the PWM timers TIM1..TIM4 and the ADC
    usart             \* USART1, the RS-485 driver-enable pin and the TX queue

\* the variables of the digital-output layer alone (mie is shared)
gpioVars == <<at8236_channels, OUTDR, CFG, handles, acquired, last, gpc, gop>>

timerVars ==
    <<timer_base, TIM_CNT, TIM_ATRLR, TIM_UIF, ldOrder, mctx, hstk,
      ticks, reads, fold, roll, sn>>

jmpVars == <<cpu, env, jhist>>

\* what the timer leaves alone, and what the digital-output layer leaves alone
outsideTimer == <<gpioVars, jmpVars, boot, periph, usart>>

outsideGpio == <<timerVars, jmpVars, boot, periph, usart>>

outsideJmp == <<gpioVars, mie, timerVars, boot, periph, usart>>

vars == <<gpioVars, mie, timerVars, jmpVars, boot, periph, usart>>

----------------------------------------------------------------------------
(* Bounds of the model. *)

\* values passed as val are drawn from 0..MaxVal (2 exercises the !!val)
MaxVal == 2

\* counter ticks in one behaviour
MaxTicks == 4

\* activations of TIM2_IRQHandler in progress at one time
MaxNest == 2

\* the period armed in the initial state
InitPeriod == 2

\* register values are drawn from 0..MaxWord
MaxWord == 2

\* register changes made by the code around setjmp and longjmp
MaxRegWrites == 2

\* the PWM cycle time asked for, in timer clocks
PwmCycle == 100

----------------------------------------------------------------------------
(* internal.h: pin numbering. Ports are 'A'-'A' .. 'E'-'A' = 0 .. 4. *)

GPIO(port, num) == port * 16 + num

GPIO2PORT(pin) == pin \div 16

GPIO2BIT(pin) == 2 ^ (pin % 16)

\* ARRAY_SIZE(digital_regs)
NumPorts == 5

Ports == 0 .. (NumPorts - 1)

\* a GPIO_TypeDef pointer is modelled by its port index, NULL by -1
NULL == -1

GPIO_MODE_INPUT == 0

GPIO_MODE_OUTPUT_50MHZ == 3

GPIO_CNF_FLOATING == 1

GPIO_CNF_INPUT_PU_PD == 2

GPIO_CNF_GP_PUSHPULL == 0

GPIO_CNF_ANALOG == 0

GPIO_CNF_AF_PUSHPULL == 2

GPIO_CONFIG(mode, cnf) == (mode % 4) + (cnf % 4) * 4

\* pins_bmcu_c.h: the inputs of the four AT8236 drivers
BMCU_C_MOTOR1_HIGH == GPIO(0, 15)

BMCU_C_MOTOR1_LOW == GPIO(1, 3)

BMCU_C_MOTOR2_HIGH == GPIO(1, 4)

BMCU_C_MOTOR2_LOW == GPIO(1, 5)

BMCU_C_MOTOR3_HIGH == GPIO(1, 6)

BMCU_C_MOTOR3_LOW == GPIO(1, 7)

BMCU_C_MOTOR4_HIGH == GPIO(1, 8)

BMCU_C_MOTOR4_LOW == GPIO(1, 9)

\* number of entries of at8236_channels
NumChannels == 4

Channels == 0 .. (NumChannels - 1)

\* The virtual pin range. The header that defines BMCU_C_AT8236_PIN_BASE and
\* BMCU_C_AT8236_PIN_STRIDE is not among the sources; the values follow the
\* description (a reserved range above the physical pins, a step and a dir
\* pin per channel).
BMCU_C_AT8236_PIN_BASE == 256

BMCU_C_AT8236_PIN_STRIDE == 2

AT8236_VIRTUAL_BASE == BMCU_C_AT8236_PIN_BASE

AT8236_VIRTUAL_MAX == AT8236_VIRTUAL_BASE + BMCU_C_AT8236_PIN_STRIDE * 4

BMCU_C_MOTOR_STEP(idx) == BMCU_C_AT8236_PIN_BASE + idx * BMCU_C_AT8236_PIN_STRIDE

BMCU_C_MOTOR_DIR(idx) == BMCU_C_AT8236_PIN_BASE + idx * BMCU_C_AT8236_PIN_STRIDE + 1

is_at8236_virtual(pin) == pin >= AT8236_VIRTUAL_BASE /\ pin < AT8236_VIRTUAL_MAX

at8236_index(pin) == ((pin - AT8236_VIRTUAL_BASE) \div BMCU_C_AT8236_PIN_STRIDE) % 256

at8236_role(pin) == (pin - AT8236_VIRTUAL_BASE) % 2

high_map(idx) ==
    CASE idx = 0 -> BMCU_C_MOTOR1_HIGH
      [] idx = 1 -> BMCU_C_MOTOR2_HIGH
      [] idx = 2 -> BMCU_C_MOTOR3_HIGH
      [] idx = 3 -> BMCU_C_MOTOR4_HIGH

low_map(idx) ==
    CASE idx = 0 -> BMCU_C_MOTOR1_LOW
      [] idx = 1 -> BMCU_C_MOTOR2_LOW
      [] idx = 2 -> BMCU_C_MOTOR3_LOW
      [] idx = 3 -> BMCU_C_MOTOR4_LOW

----------------------------------------------------------------------------
(* Bit arithmetic on a register value; bit is a one-bit mask. *)

BitIsSet(reg, bit) == (reg \div bit) % 2 = 1

BitSet(reg, bit) == IF BitIsSet(reg, bit) THEN reg ELSE reg + bit

BitClear(reg, bit) == IF BitIsSet(reg, bit) THEN reg - bit ELSE reg

BitXor(reg, bit) == IF BitIsSet(reg, bit) THEN reg - bit ELSE reg + bit

\* __builtin_ctz of a one-bit mask
ctz(bit) == CHOOSE n \in 0 .. 15 : 2 ^ n = bit

\* !!val
Bool01(val) == IF val # 0 THEN 1 ELSE 0

----------------------------------------------------------------------------
(* The digital-output code as functions of the machine state G:            *)
(*   G.ch     at8236_channels       G.OUTDR, G.CFG   the port registers    *)
(*   G.mie    mstatus.MIE           G.acq   acquisitions per channel       *)
(*   G.ret    the struct gpio_out the function returns                     *)
(*   G.halt   the message of the shutdown() that ended the function, or "" *)
(*   G.per    AFIO->PCFR1, the PWM timers and the ADC                     *)
(*   G.TIM2   ATRLR and CNT of TIM2, the timer of the tick clock           *)

NoHandle == [regs |-> NULL, bit |-> 0]

ZeroChannel ==
    [high_pin |-> NoHandle, low_pin |-> NoHandle,
     configured |-> 0, step_state |-> 0, dir_state |-> 0]

\* shutdown(msg): the function that called it does not go on
shutdown(G, msg) == [G EXCEPT !.halt = msg]

\* gpio_pin_to_regs: the test that ends in shutdown("Invalid GPIO")
gpio_pin_invalid(pin) == GPIO2PORT(pin) >= NumPorts

gpio_pin_to_regs(pin) == GPIO2PORT(pin)

configure_pin(G, regs, pnum, config) ==
    [G EXCEPT !.CFG[regs][pnum] = config]

gpio_peripheral(G, pin, mode, pull_up) ==
    LET regs == gpio_pin_to_regs(pin)
        pnum == pin % 16
        G1 == IF mode = GPIO_CONFIG(GPIO_MODE_INPUT, GPIO_CNF_INPUT_PU_PD)
              THEN IF pull_up # 0
                   THEN [G EXCEPT !.OUTDR[regs] = BitSet(@, GPIO2BIT(pin))]
                   ELSE [G EXCEPT !.OUTDR[regs] = BitClear(@, GPIO2BIT(pin))]
              ELSE G
    IN  IF gpio_pin_invalid(pin)
        THEN shutdown(G, "Invalid GPIO")
        ELSE configure_pin(G1, regs, pnum, mode)

gpio_out_write_hw(G, g, val) ==
    IF val # 0
    THEN [G EXCEPT !.OUTDR[g.regs] = BitSet(@, g.bit)]
    ELSE [G EXCEPT !.OUTDR[g.regs] = BitClear(@, g.bit)]

gpio_out_toggle_noirq_hw(G, g) ==
    [G EXCEPT !.OUTDR[g.regs] = BitXor(@, g.bit)]

gpio_out_reset_hw(G, g, val) ==
    LET flag == G.mie
        G1 == [G EXCEPT !.mie = 0]
        G2 == gpio_out_write_hw(G1, g, val)
        pin == GPIO(g.regs, ctz(g.bit))
        G3 == gpio_peripheral(G2, pin,
                  GPIO_CONFIG(GPIO_MODE_OUTPUT_50MHZ, GPIO_CNF_GP_PUSHPULL), 0)
    IN  [G3 EXCEPT !.mie = flag]

gpio_out_setup_hw(G, pin, val) ==
    LET regs == gpio_pin_to_regs(pin)
        g == [regs |-> regs, bit |-> GPIO2BIT(pin)]
    IN  IF gpio_pin_invalid(pin)
        THEN shutdown(G, "Invalid GPIO")
        ELSE [gpio_out_reset_hw(G, g, val) EXCEPT !.ret = g]

\* at8236_levels with the two branches of the dir_state test exchanged
at8236_levels_dir_swapped(c) ==
    IF c.step_state # 0
    THEN IF c.dir_state # 0 THEN <<1, 0>> ELSE <<0, 1>>
    ELSE <<0, 0>>

\* the two levels at8236_apply decides to write: <<high, low>>
at8236_levels(c) ==
    IF c.step_state # 0
    THEN IF c.dir_state # 0 THEN <<0, 1>> ELSE <<1, 0>>
    ELSE <<0, 0>>

\* at8236_apply asserting the selected pin without deasserting the other one
at8236_apply_no_deassert(G, idx) ==
    LET c == G.ch[idx]
    IN  IF c.configured = 0
        THEN G
        ELSE IF c.step_state # 0
             THEN IF c.dir_state # 0
                  THEN gpio_out_write_hw(G, c.low_pin, 1)
                  ELSE gpio_out_write_hw(G, c.high_pin, 1)
             ELSE gpio_out_write_hw(gpio_out_write_hw(G, c.high_pin, 0), c.low_pin, 0)

at8236_apply(G, idx) ==
    LET c == G.ch[idx]
        lv == at8236_levels(c)
    IN  IF c.configured = 0
        THEN G
        ELSE gpio_out_write_hw(gpio_out_write_hw(G, c.high_pin, lv[1]),
                               c.low_pin, lv[2])

\* at8236_configure without the test of ch->configured
at8236_configure_no_guard(G, idx) ==
    LET G1 == gpio_out_setup_hw(G, high_map(idx), 0)
        G2 == gpio_out_setup_hw(G1, low_map(idx), 0)
    IN  [G2 EXCEPT !.ch[idx] = [high_pin |-> G1.ret, low_pin |-> G2.ret,
                                step_state |-> 0, dir_state |-> 0,
                                configured |-> 1],
                   !.acq[idx] = @ + 1]

at8236_configure(G, idx) ==
    IF G.ch[idx].configured # 0
    THEN G
    ELSE LET G1 == gpio_out_setup_hw(G, high_map(idx), 0)
             G2 == gpio_out_setup_hw(G1, low_map(idx), 0)
         IN  [G2 EXCEPT !.ch[idx] = [high_pin |-> G1.ret, low_pin |-> G2.ret,
                                     step_state |-> 0, dir_state |-> 0,
                                     configured |-> 1],
                        !.acq[idx] = @ + 1]

\* the assignment to the logical bit of the pin's role, clearing the other bit
at8236_set_bit_clears_other(G, pin, val) ==
    IF at8236_role(pin) # 0
    THEN [G EXCEPT !.ch[at8236_index(pin)].dir_state = Bool01(val),
                   !.ch[at8236_index(pin)].step_state = 0]
    ELSE [G EXCEPT !.ch[at8236_index(pin)].step_state = Bool01(val),
                   !.ch[at8236_index(pin)].dir_state = 0]

\* the assignment to the logical bit of the pin's role
at8236_set_bit(G, pin, val) ==
    IF at8236_role(pin) # 0
    THEN [G EXCEPT !.ch[at8236_index(pin)].dir_state = Bool01(val)]
    ELSE [G EXCEPT !.ch[at8236_index(pin)].step_state = Bool01(val)]

at8236_xor_bit(G, pin) ==
    IF at8236_role(pin) # 0
    THEN [G EXCEPT !.ch[at8236_index(pin)].dir_state = (@ + 1) % 2]
    ELSE [G EXCEPT !.ch[at8236_index(pin)].step_state = (@ + 1) % 2]

\* at8236_setup_pin configuring after the store to the logical bit
at8236_setup_pin_configure_late(G, pin, val) ==
    LET idx == at8236_index(pin)
        G1 == at8236_set_bit(G, pin, val)
        G2 == at8236_configure(G1, idx)
        G3 == at8236_apply(G2, idx)
    IN  [G3 EXCEPT !.ret = [regs |-> NULL, bit |-> pin]]

at8236_setup_pin(G, pin, val) ==
    LET idx == at8236_index(pin)
        G1 == at8236_configure(G, idx)
        G2 == at8236_set_bit(G1, pin, val)
        G3 == at8236_apply(G2, idx)
    IN  [G3 EXCEPT !.ret = [regs |-> NULL, bit |-> pin]]

at8236_write(G, pin, val) ==
    at8236_apply(at8236_set_bit(G, pin, val), at8236_index(pin))

at8236_toggle(G, pin) ==
    at8236_apply(at8236_xor_bit(G, pin), at8236_index(pin))

gpio_out_setup(G, pin, val) ==
    IF is_at8236_virtual(pin)
    THEN at8236_setup_pin(G, pin, val)
    ELSE gpio_out_setup_hw(G, pin, val)

\* gpio_out_reset that drives a virtual pin to 0 whatever val is
gpio_out_reset_ignores_val(G, g, val) ==
    IF g.regs = NULL /\ is_at8236_virtual(g.bit)
    THEN at8236_write(G, g.bit, 0)
    ELSE gpio_out_reset_hw(G, g, val)

gpio_out_reset(G, g, val) ==
    IF g.regs = NULL /\ is_at8236_virtual(g.bit)
    THEN at8236_write(G, g.bit, val)
    ELSE gpio_out_reset_hw(G, g, val)

gpio_out_toggle_noirq(G, g) ==
    IF g.regs = NULL /\ is_at8236_virtual(g.bit)
    THEN at8236_toggle(G, g.bit)
    ELSE gpio_out_toggle_noirq_hw(G, g)

gpio_out_toggle(G, g) ==
    LET flag == G.mie
        G1 == gpio_out_toggle_noirq([G EXCEPT !.mie = 0], g)
    IN  [G1 EXCEPT !.mie = flag]

\* gpio_out_write that tests the bit field alone
gpio_out_write_by_bit(G, g, val) ==
    IF is_at8236_virtual(g.bit)
    THEN at8236_write(G, g.bit, val)
    ELSE gpio_out_write_hw(G, g, val)

gpio_out_write(G, g, val) ==
    IF g.regs = NULL /\ is_at8236_virtual(g.bit)
    THEN at8236_write(G, g.bit, val)
    ELSE gpio_out_write_hw(G, g, val)

----------------------------------------------------------------------------
(* 32-bit words as pairs <<high half, low half>> of 16-bit numbers. *)

\* 2^16: the range of a half word and of the 16-bit timer registers
W16 == 65536

Add32(a, b) ==
    LET lo == a[2] + b[2]
    IN  <<(a[1] + b[1] + (lo \div W16)) % W16, lo % W16>>

Sub32(a, b) ==
    LET borrow == IF a[2] < b[2] THEN 1 ELSE 0
    IN  <<(a[1] - b[1] - borrow + 2 * W16) % W16, (a[2] - b[2] + W16) % W16>>

\* (int32_t)a
S32(a) == IF a[1] >= W16 \div 2 THEN (a[1] - W16) * W16 + a[2] ELSE a[1] * W16 + a[2]

\* (uint32_t)n of an integer n in -2^31 .. 2^31-1
U32(n) == <<(n \div W16) % W16, n % W16>>

\* what a 16-bit timer register keeps of a 32-bit store
Reg16(a) == a[2]

----------------------------------------------------------------------------
(* timer.c as functions of the values read. *)

\* current_ticks() evaluated at one instant
current_ticks == Add32(timer_base, U32(TIM_CNT))

\* schedule_next: the value of diff stored to ATRLR
schedule_next_diff(next, now) ==
    LET diff == S32(Sub32(next, now))
    IN  IF diff < 2 THEN 2 ELSE diff

\* timer_kick: the deadline it passes to schedule_next
KickDelay == 50

timer_kick_deadline(now) == Add32(now, U32(KickDelay))

\* TIM2_IRQHandler: timer_base += TIM2->ATRLR
irq_fold(base, atrlr) == Add32(base, U32(atrlr))

\* a < b as unsigned 32-bit words
LT32(a, b) == a[1] < b[1] \/ (a[1] = b[1] /\ a[2] < b[2])

\* the loop test of udelay with the two times compared as unsigned numbers
udelay_waiting_unsigned(now, end) == LT32(now, end)

\* udelay: the loop test (int32_t)(timer_read_time() - end) < 0
udelay_waiting(now, end) == S32(Sub32(now, end)) < 0

----------------------------------------------------------------------------
(* The timer: the counter, the mainline and the interrupt handler, one step *)
(* per load or store of a shared location.                                 *)

Z32 == <<0, 0>>

\* a context: the function, the next step, the first loaded operand of
\* current_ticks, the locals next and now of schedule_next, the number of
\* stores schedule_next has done, and for udelay its argument, the time read
\* on entry, the local end, the time read last and whether it has returned
IdleCtx ==
    [fn |-> "main", pc |-> "idle", a |-> Z32, next |-> Z32, now |-> Z32, k |-> 0,
     usecs |-> Z32, t0 |-> Z32, end |-> Z32, last |-> Z32, done |-> FALSE,
     steps |-> <<>>]

\* the history of a schedule_next call: its arguments, the counter ticks since
\* it read CNT, its stores in order, the clock and the ticks at its return,
\* and whether the period it armed has elapsed
NoSn == [st |-> "none", next |-> Z32, now |-> Z32, ticks |-> 0, log |-> <<>>,
         retTime |-> Z32, retTicks |-> 0, raised |-> FALSE]

NoFold == [n |-> 0, before |-> Z32, after |-> Z32, len |-> 0, pending |-> 0]

NoRoll == [pending |-> 0, len |-> 0]

\* the results of the last two timer_read_time calls that followed one another,
\* and whether a call was made by the handler inside the mainline's open call
NoReads == [n |-> 0, prev |-> Z32, cur |-> Z32, nested |-> FALSE]

\* a call returns v after the calls recorded in r
ReadDone(r, v) ==
    [n |-> IF r.n < 2 THEN r.n + 1 ELSE 2, prev |-> r.cur, cur |-> v,
     nested |-> FALSE]

\* timer_base values the handler chain has reached: start-up, and shortly
\* before the clock passes 2^32
StartBases == {Z32, <<W16 - 1, W16 - 3>>}

\* offsets from the current time of the deadlines timer_dispatch_many returns:
\* -1, 3, 65536 and 65538
DispatchDeltas == {<<W16 - 1, W16 - 1>>, <<0, 3>>, <<1, 0>>, <<1, 2>>}

\* the timer armed and running, nothing in progress
TimerQuietAt(base, order) ==
    /\ timer_base = base
    /\ TIM_CNT = 0
    /\ TIM_ATRLR = InitPeriod
    /\ TIM_UIF = 0
    /\ ldOrder = order
    /\ mctx = IdleCtx
    /\ hstk = <<>>
    /\ ticks = 0
    /\ reads = NoReads
    /\ fold = NoFold
    /\ roll = NoRoll
    /\ sn = NoSn

TimerQuiet == TimerQuietAt(Z32, "base_first")

\* the context that is executing
Cur == IF hstk = <<>> THEN mctx ELSE hstk[Len(hstk)]

SetCur(c) ==
    IF hstk = <<>>
    THEN mctx' = c /\ hstk' = hstk
    ELSE hstk' = [hstk EXCEPT ![Len(hstk)] = c] /\ mctx' = mctx

\* the update interrupt is pending and will be taken before the next instruction
IrqPending == TIM_UIF = 1 /\ mie = 1 /\ Len(hstk) < MaxNest

\* the executing context is at step pc and no interrupt preempts it
At(pcs) == Cur.pc \in pcs /\ ~IrqPending

\* the counter advances by one; a period that elapses sets the update flag.
\* One tick is CONFIG_CLOCK_FREQ / 1000000 processor cycles, so a pending
\* interrupt is taken before the next one.
Tick ==
    /\ ticks < MaxTicks
    /\ boot.CEN = 1
    /\ ~IrqPending
    /\ ticks' = ticks + 1
    /\ IF TIM_CNT + 1 = TIM_ATRLR \/ TIM_CNT + 1 = W16
       THEN /\ TIM_CNT' = 0
            /\ TIM_UIF' = 1
            /\ roll' = [pending |-> IF roll.pending < 2 THEN roll.pending + 1 ELSE 2,
                        len |-> TIM_CNT + 1]
            /\ sn' = CASE sn.st = "returned" /\ ~sn.raised ->
                              [sn EXCEPT !.ticks = @ + 1, !.raised = TRUE]
                       [] sn.st = "running" -> [sn EXCEPT !.ticks = @ + 1]
                       [] OTHER -> sn
       ELSE /\ TIM_CNT' = TIM_CNT + 1
            /\ sn' = IF sn.st = "running" \/ (sn.st = "returned" /\ ~sn.raised)
                     THEN [sn EXCEPT !.ticks = @ + 1]
                     ELSE sn
            /\ UNCHANGED <<TIM_UIF, roll>>
    /\ UNCHANGED <<timer_base, TIM_ATRLR, ldOrder, mctx, hstk, reads, fold, mie>>
    /\ UNCHANGED outsideTimer

\* the body of TIM2_IRQHandler with irq_enable() before schedule_next(next)
TIM2_IRQHandler_enable_early ==
    <<"h_clr", "h_fold", "h_dis", "h_disp", "h_en", "h_sn", "h_ret">>

\* the statements of TIM2_IRQHandler in program order, and its return
TIM2_IRQHandler ==
    <<"h_clr", "h_fold", "h_dis", "h_disp", "h_sn", "h_en", "h_ret">>

\* the statement of the handler that follows the statement pc
HandlerAfter(pc) ==
    LET k == CHOOSE i \in 1 .. Len(TIM2_IRQHandler) : TIM2_IRQHandler[i] = pc
    IN  TIM2_IRQHandler[k + 1]

\* the handler has done the statement named, and is at the one that follows pc
HandlerDid(name, pc) ==
    [Cur EXCEPT !.steps = Append(@, name), !.pc = HandlerAfter(pc)]

\* the interrupt is taken: mstatus.MIE is cleared and the handler entered
TrapEnter ==
    /\ IrqPending
    /\ hstk' = Append(hstk, [IdleCtx EXCEPT !.fn = "irq",
                                            !.pc = TIM2_IRQHandler[1]])
    /\ mie' = 0
    /\ UNCHANGED <<timer_base, TIM_CNT, TIM_ATRLR, TIM_UIF, ldOrder, mctx,
                   ticks, reads, fold, roll, sn>>
    /\ UNCHANGED outsideTimer

\* irq_disable() and irq_enable() called by the mainline
MainIrqDisable ==
    /\ hstk = <<>> /\ At({"idle"})
    /\ mie = 1
    /\ mie' = 0
    /\ UNCHANGED timerVars
    /\ UNCHANGED outsideTimer

MainIrqEnable ==
    /\ hstk = <<>> /\ At({"idle"})
    /\ mie = 0
    /\ mie' = 1
    /\ UNCHANGED timerVars
    /\ UNCHANGED outsideTimer

\* the mainline calls timer_read_time()
StartReadTime ==
    /\ hstk = <<>> /\ At({"idle"})
    /\ mctx' = [IdleCtx EXCEPT !.fn = "read", !.pc = "rt_ld1"]
    /\ UNCHANGED <<timer_base, TIM_CNT, TIM_ATRLR, TIM_UIF, ldOrder, hstk,
                   ticks, reads, fold, roll, sn, mie>>
    /\ UNCHANGED outsideTimer

\* the mainline calls timer_kick(), as timer_init does, with interrupts disabled
StartTimerKick ==
    /\ hstk = <<>> /\ At({"idle"})
    /\ mie = 0
    /\ mctx' = [IdleCtx EXCEPT !.fn = "kick", !.pc = "k_ld1"]
    /\ UNCHANGED <<timer_base, TIM_CNT, TIM_ATRLR, TIM_UIF, ldOrder, hstk,
                   ticks, reads, fold, roll, sn, mie>>
    /\ UNCHANGED outsideTimer

\* a schedule_next call starts: its history record
SnStarted(next) == [NoSn EXCEPT !.st = "running", !.next = next]

\* current_ticks(): the load of the first operand
Load1 ==
    /\ At({"rt_ld1", "k_ld1", "sn_ld1", "ud_ld1", "ul_ld1"})
    /\ SetCur([Cur EXCEPT
                 !.a = IF ldOrder = "base_first" THEN timer_base ELSE U32(TIM_CNT),
                 !.pc = CASE Cur.pc = "rt_ld1" -> "rt_ld2"
                          [] Cur.pc = "k_ld1" -> "k_ld2"
                          [] Cur.pc = "sn_ld1" -> "sn_ld2"
                          [] Cur.pc = "ud_ld1" -> "ud_ld2"
                          [] Cur.pc = "ul_ld1" -> "ul_ld2"])
    /\ sn' = IF Cur.pc = "sn_ld1" /\ ldOrder = "cnt_first"
             THEN [sn EXCEPT !.ticks = 0]
             ELSE sn
    /\ UNCHANGED <<timer_base, TIM_CNT, TIM_ATRLR, TIM_UIF, ldOrder,
                   ticks, reads, fold, roll, mie>>
    /\ UNCHANGED outsideTimer

\* the result of current_ticks() at the load of the second operand
Loaded ==
    IF ldOrder = "base_first"
    THEN Add32(Cur.a, U32(TIM_CNT))
    ELSE Add32(timer_base, Cur.a)

\* the results of the calls recorded in reads, and then v
ReadAfter(v) ==
    IF reads.nested
    THEN [ReadDone(NoReads, v) EXCEPT !.prev = reads.cur]
    ELSE ReadDone(reads, v)

\* timer_read_time() in the mainline: the second load, and the return
ReadTimeReturn ==
    /\ At({"rt_ld2"})
    /\ reads' = ReadAfter(Loaded)
    /\ SetCur(IdleCtx)
    /\ UNCHANGED <<timer_base, TIM_CNT, TIM_ATRLR, TIM_UIF, ldOrder,
                   ticks, fold, roll, sn, mie>>
    /\ UNCHANGED outsideTimer

\* the arguments of udelay: 0, 1, 3 and 2^31 - 1
UdelayArgs == {Z32, <<0, 1>>, <<0, 3>>, <<W16 \div 2 - 1, W16 - 1>>}

\* the mainline calls udelay(usecs)
StartUdelay(usecs) ==
    /\ hstk = <<>> /\ At({"idle"})
    /\ mctx' = [IdleCtx EXCEPT !.fn = "udelay", !.pc = "ud_ld1", !.usecs = usecs]
    /\ UNCHANGED <<timer_base, TIM_CNT, TIM_ATRLR, TIM_UIF, ldOrder, hstk,
                   ticks, reads, fold, roll, sn, mie>>
    /\ UNCHANGED outsideTimer

\* udelay: end = timer_read_time() + usecs
UdelayEnd ==
    /\ At({"ud_ld2"})
    /\ reads' = ReadAfter(Loaded)
    /\ SetCur([Cur EXCEPT !.t0 = Loaded, !.end = Add32(Loaded, Cur.usecs),
                          !.pc = "ul_ld1"])
    /\ UNCHANGED <<timer_base, TIM_CNT, TIM_ATRLR, TIM_UIF, ldOrder,
                   ticks, fold, roll, sn, mie>>
    /\ UNCHANGED outsideTimer

\* udelay: one test of the loop; timer_read_time() again, or the return
UdelayTest ==
    /\ At({"ul_ld2"})
    /\ reads' = ReadAfter(Loaded)
    /\ SetCur(IF udelay_waiting(Loaded, Cur.end)
              THEN [Cur EXCEPT !.last = Loaded, !.pc = "ul_ld1"]
              ELSE [IdleCtx EXCEPT !.usecs = Cur.usecs, !.t0 = Cur.t0,
                                   !.end = Cur.end, !.last = Loaded,
                                   !.done = TRUE])
    /\ UNCHANGED <<timer_base, TIM_CNT, TIM_ATRLR, TIM_UIF, ldOrder,
                   ticks, fold, roll, sn, mie>>
    /\ UNCHANGED outsideTimer

\* timer_kick(): timer_read_time() + 50, and the call of schedule_next
KickCall ==
    /\ At({"k_ld2"})
    /\ SetCur([Cur EXCEPT !.next = timer_kick_deadline(Loaded), !.pc = "sn_ld1"])
    /\ sn' = SnStarted(timer_kick_deadline(Loaded))
    /\ UNCHANGED <<timer_base, TIM_CNT, TIM_ATRLR, TIM_UIF, ldOrder,
                   ticks, reads, fold, roll, mie>>
    /\ UNCHANGED outsideTimer

\* schedule_next: now = current_ticks(), the second load
SnNow ==
    /\ At({"sn_ld2"})
    /\ SetCur([Cur EXCEPT !.now = Loaded, !.pc = "sn_st", !.k = 0])
    /\ sn' = IF ldOrder = "base_first"
             THEN [sn EXCEPT !.now = Loaded, !.ticks = 0]
             ELSE [sn EXCEPT !.now = Loaded]
    /\ UNCHANGED <<timer_base, TIM_CNT, TIM_ATRLR, TIM_UIF, ldOrder,
                   ticks, reads, fold, roll, mie>>
    /\ UNCHANGED outsideTimer

\* the stores of schedule_next, in program order
schedule_next_stores == <<"timer_base", "ATRLR", "CNT", "SWEVGR">>

\* schedule_next: its next store; the last one is followed by the return
SnStore ==
    /\ At({"sn_st"})
    /\ LET reg == schedule_next_stores[Cur.k + 1]
           done == Cur.k + 1 = Len(schedule_next_stores)
           base1 == IF reg = "timer_base" THEN Cur.now ELSE timer_base
           cnt1 == IF reg \in {"CNT", "SWEVGR"} THEN 0 ELSE TIM_CNT
       IN  /\ timer_base' = base1
           /\ TIM_CNT' = cnt1
           /\ TIM_ATRLR' = IF reg = "ATRLR"
                           THEN Reg16(U32(schedule_next_diff(Cur.next, Cur.now)))
                           ELSE TIM_ATRLR
           /\ SetCur(IF done
                     THEN IF Cur.fn = "irq"
                          THEN [Cur EXCEPT !.pc = HandlerAfter("h_sn")]
                          ELSE IdleCtx
                     ELSE [Cur EXCEPT !.k = @ + 1])
           /\ sn' = IF done
                    THEN [sn EXCEPT !.log = Append(@, reg), !.st = "returned",
                                    !.retTime = Add32(base1, U32(cnt1)),
                                    !.retTicks = sn.ticks]
                    ELSE [sn EXCEPT !.log = Append(@, reg)]
    /\ UNCHANGED <<TIM_UIF, ldOrder, ticks, reads, fold, roll, mie>>
    /\ UNCHANGED outsideTimer

\* TIM2_IRQHandler: TIM2->INTFR = ~TIM_UIF
HClearFlag ==
    /\ At({"h_clr"})
    /\ TIM_UIF' = 0
    /\ SetCur(HandlerDid("clear_flag", "h_clr"))
    /\ UNCHANGED <<timer_base, TIM_CNT, TIM_ATRLR, ldOrder, ticks, reads, fold,
                   roll, sn, mie>>
    /\ UNCHANGED outsideTimer

\* TIM2_IRQHandler: timer_base += TIM2->ATRLR
HFold ==
    /\ At({"h_fold"})
    /\ timer_base' = irq_fold(timer_base, TIM_ATRLR)
    /\ fold' = [n |-> 1, before |-> timer_base, after |-> timer_base',
                len |-> roll.len, pending |-> roll.pending]
    /\ roll' = [roll EXCEPT !.pending = 0]
    /\ SetCur(HandlerDid("add_period", "h_fold"))
    /\ UNCHANGED <<TIM_CNT, TIM_ATRLR, TIM_UIF, ldOrder, ticks, reads, sn, mie>>
    /\ UNCHANGED outsideTimer

\* TIM2_IRQHandler: irq_disable()
HIrqDisable ==
    /\ At({"h_dis"})
    /\ mie' = 0
    /\ SetCur(HandlerDid("irq_disable", "h_dis"))
    /\ UNCHANGED <<timer_base, TIM_CNT, TIM_ATRLR, TIM_UIF, ldOrder, ticks,
                   reads, fold, roll, sn>>
    /\ UNCHANGED outsideTimer

\* TIM2_IRQHandler: next = timer_dispatch_many(), which reads the clock and
\* returns a deadline at some offset from it; then the call of schedule_next
HDispatch(delta) ==
    /\ At({"h_disp"})
    /\ reads' = [ReadDone(reads, current_ticks) EXCEPT
                   !.nested = mctx.pc \in {"rt_ld1", "rt_ld2", "ud_ld1", "ud_ld2",
                                           "ul_ld1", "ul_ld2"}]
    /\ SetCur([HandlerDid("timer_dispatch_many", "h_disp") EXCEPT
                  !.next = Add32(current_ticks, delta)])
    /\ UNCHANGED <<timer_base, TIM_CNT, TIM_ATRLR, TIM_UIF, ldOrder, ticks,
                   fold, roll, sn, mie>>
    /\ UNCHANGED outsideTimer

\* TIM2_IRQHandler: the call schedule_next(next)
HCallSn ==
    /\ At({"h_sn"})
    /\ SetCur([Cur EXCEPT !.steps = Append(@, "schedule_next"), !.pc = "sn_ld1"])
    /\ sn' = SnStarted(Cur.next)
    /\ UNCHANGED <<timer_base, TIM_CNT, TIM_ATRLR, TIM_UIF, ldOrder, ticks,
                   reads, fold, roll, mie>>
    /\ UNCHANGED outsideTimer

\* TIM2_IRQHandler: irq_enable()
HIrqEnable ==
    /\ At({"h_en"})
    /\ mie' = 1
    /\ SetCur(HandlerDid("irq_enable", "h_en"))
    /\ UNCHANGED <<timer_base, TIM_CNT, TIM_ATRLR, TIM_UIF, ldOrder, ticks,
                   reads, fold, roll, sn>>
    /\ UNCHANGED outsideTimer

\* the return from the handler; the interrupted context had interrupts enabled
HReturn ==
    /\ At({"h_ret"})
    /\ hstk' = SubSeq(hstk, 1, Len(hstk) - 1)
    /\ mie' = 1
    /\ UNCHANGED <<timer_base, TIM_CNT, TIM_ATRLR, TIM_UIF, ldOrder, mctx, ticks,
                   reads, fold, roll, sn>>
    /\ UNCHANGED outsideTimer

TimerNext ==
    \/ Tick
    \/ TrapEnter
    \/ MainIrqDisable
    \/ MainIrqEnable
    \/ StartReadTime
    \/ StartTimerKick
    \/ Load1
    \/ ReadTimeReturn
    \/ KickCall
    \/ SnNow
    \/ SnStore
    \/ HClearFlag
    \/ HFold
    \/ HIrqDisable
    \/ \E delta \in DispatchDeltas : HDispatch(delta)
    \/ HCallSn
    \/ HIrqEnable
    \/ HReturn

\* the mainline in udelay, with the counter and the handler
DelayNext ==
    \/ Tick
    \/ TrapEnter
    \/ MainIrqDisable
    \/ MainIrqEnable
    \/ \E usecs \in UdelayArgs : StartUdelay(usecs)
    \/ Load1
    \/ UdelayEnd
    \/ UdelayTest
    \/ SnNow
    \/ SnStore
    \/ HClearFlag
    \/ HFold
    \/ HIrqDisable
    \/ \E delta \in DispatchDeltas : HDispatch(delta)
    \/ HCallSn
    \/ HIrqEnable
    \/ HReturn

(***************************************************************************)
(* gpio_in_setup(), the hardware PWM driver and the ADC driver.  Like the  *)
(* functions of gpio.c they are operators over the machine state G; a      *)
(* function that called shutdown() returns G with G.halt set and with the  *)
(* registers it had written before.                                        *)
(***************************************************************************)
gpio_in_reset(G, g, pull_up) ==
    LET mode == IF pull_up >= 0
                THEN GPIO_CONFIG(GPIO_MODE_INPUT, GPIO_CNF_INPUT_PU_PD)
                ELSE GPIO_CONFIG(GPIO_MODE_INPUT, GPIO_CNF_FLOATING)
        pin == IF g.regs \in Ports THEN GPIO(g.regs, ctz(g.bit)) ELSE 0
    IN  gpio_peripheral(G, pin, mode, pull_up)

gpio_in_setup(G, pin, pull_up) ==
    LET g == [regs |-> gpio_pin_to_regs(pin), bit |-> GPIO2BIT(pin)]
    IN  IF gpio_pin_invalid(pin)
        THEN shutdown(G, "Invalid GPIO")
        ELSE [gpio_in_reset(G, g, pull_up) EXCEPT !.ret = g]

PWM_MAX == W16

AFIO_PCFR1_TIM1_REMAP_MASK == 3 * 2 ^ 6
AFIO_PCFR1_TIM1_REMAP_NONE == 0 * 2 ^ 6
AFIO_PCFR1_TIM2_REMAP_MASK == 3 * 2 ^ 8
AFIO_PCFR1_TIM2_REMAP_NONE == 0 * 2 ^ 8
AFIO_PCFR1_TIM2_REMAP_PARTIAL1 == 1 * 2 ^ 8
AFIO_PCFR1_TIM2_REMAP_FULL == 3 * 2 ^ 8
AFIO_PCFR1_TIM3_REMAP_MASK == 3 * 2 ^ 10
AFIO_PCFR1_TIM3_REMAP_NONE == 0 * 2 ^ 10
AFIO_PCFR1_TIM3_REMAP_PARTIAL == 1 * 2 ^ 10
AFIO_PCFR1_TIM3_REMAP_FULL == 2 * 2 ^ 10
AFIO_PCFR1_TIM4_REMAP_MASK == 1 * 2 ^ 12
AFIO_PCFR1_TIM4_REMAP_NONE == 0 * 2 ^ 12
AFIO_PCFR1_TIM4_REMAP_FULL == 1 * 2 ^ 12

\* TIM1 .. TIM4 are named by their numbers
Timers == 1 .. 4

PwmChannels == 1 .. 4

\* one row of pwm_map: struct gpio_pwm_info
PwmInfo(timer, pin, channel, mask, value) ==
    [timer |-> timer, pin |-> pin, channel |-> channel,
     remap_mask |-> mask, remap_value |-> value]

\* the rows of pwm_map for one timer and one remap value: channels in order
PwmRows(timer, pins, chans, mask, value) ==
    [k \in 1 .. Len(pins) |-> PwmInfo(timer, pins[k], chans[k], mask, value)]

\* pwm_map[] of a build; have is the set of n with CONFIG_HAVE_PWM_TIMn set
pwm_map(have) ==
    (IF 1 \in have
     THEN PwmRows(1, <<GPIO(0, 8), GPIO(0, 9), GPIO(0, 10), GPIO(0, 11)>>,
                  <<1, 2, 3, 4>>,
                  AFIO_PCFR1_TIM1_REMAP_MASK, AFIO_PCFR1_TIM1_REMAP_NONE)
     ELSE <<>>)
    \o PwmRows(2, <<GPIO(0, 0), GPIO(0, 1), GPIO(0, 2), GPIO(0, 3)>>,
               <<1, 2, 3, 4>>,
               AFIO_PCFR1_TIM2_REMAP_MASK, AFIO_PCFR1_TIM2_REMAP_NONE)
    \o PwmRows(2, <<GPIO(0, 15), GPIO(1, 3), GPIO(0, 2), GPIO(0, 3)>>,
               <<1, 2, 3, 4>>,
               AFIO_PCFR1_TIM2_REMAP_MASK, AFIO_PCFR1_TIM2_REMAP_PARTIAL1)
    \o PwmRows(2, <<GPIO(1, 10), GPIO(1, 11)>>, <<3, 4>>,
               AFIO_PCFR1_TIM2_REMAP_MASK, AFIO_PCFR1_TIM2_REMAP_FULL)
    \o PwmRows(3, <<GPIO(0, 6), GPIO(0, 7), GPIO(1, 0), GPIO(1, 1)>>,
               <<1, 2, 3, 4>>,
               AFIO_PCFR1_TIM3_REMAP_MASK, AFIO_PCFR1_TIM3_REMAP_NONE)
    \o PwmRows(3, <<GPIO(1, 4), GPIO(1, 5), GPIO(1, 0), GPIO(1, 1)>>,
               <<1, 2, 3, 4>>,
               AFIO_PCFR1_TIM3_REMAP_MASK, AFIO_PCFR1_TIM3_REMAP_PARTIAL)
    \o PwmRows(3, <<GPIO(2, 6), GPIO(2, 7), GPIO(2, 8), GPIO(2, 9)>>,
               <<1, 2, 3, 4>>,
               AFIO_PCFR1_TIM3_REMAP_MASK, AFIO_PCFR1_TIM3_REMAP_FULL)
    \o (IF 4 \in have
        THEN PwmRows(4, <<GPIO(1, 6), GPIO(1, 7), GPIO(1, 8), GPIO(1, 9)>>,
                     <<1, 2, 3, 4>>,
                     AFIO_PCFR1_TIM4_REMAP_MASK, AFIO_PCFR1_TIM4_REMAP_NONE)
             \o PwmRows(4, <<GPIO(3, 12), GPIO(3, 13), GPIO(3, 14), GPIO(3, 15)>>,
                        <<1, 2, 3, 4>>,
                        AFIO_PCFR1_TIM4_REMAP_MASK, AFIO_PCFR1_TIM4_REMAP_FULL)
        ELSE <<>>)

\* word & mask, for a mask of adjacent bits
MaskAnd(word, mask) ==
    LET low == CHOOSE b \in {2 ^ k : k \in 0 .. 15} :
                   mask % b = 0 /\ (mask \div b) % 2 = 1
    IN  ((word \div low) % ((mask \div low) + 1)) * low

\* the test lookup_pwm_info and apply_remap make of a row: the remap field
\* of AFIO->PCFR1 is already set, to another value than the row's
remap_conflict(G, p) ==
    /\ p.remap_mask # 0
    /\ MaskAnd(G.per.PCFR1, p.remap_mask) # 0
    /\ MaskAnd(G.per.PCFR1, p.remap_mask) # p.remap_value

\* lookup_pwm_info: the index in pwm_map of the row it returns, 0 when it
\* ends in shutdown("Not a valid PWM pin")
lookup_pwm_info(G, pin) ==
    LET map == pwm_map(G.per.have)
        found == {k \in 1 .. Len(map) :
                     map[k].pin = pin /\ ~remap_conflict(G, map[k])}
    IN  IF found = {} THEN 0
        ELSE CHOOSE k \in found : \A j \in found : k <= j

apply_remap(G, info) ==
    IF info.remap_mask = 0 THEN G
    ELSE IF remap_conflict(G, info) THEN shutdown(G, "PWM remap conflict")
    ELSE [G EXCEPT !.per.PCFR1 =
              (@ - MaskAnd(@, info.remap_mask)) + info.remap_value]

DIV_ROUND_UP(n, d) == (n + d - 1) \div d

\* compute_timer_period: [halt, prescaler, period]
compute_timer_period(cycle_time) ==
    LET limit == DIV_ROUND_UP(cycle_time, PWM_MAX)
        exact == {p \in 1 .. limit :
                     cycle_time % p = 0 /\ cycle_time \div p <= PWM_MAX}
        first == CHOOSE p \in exact : \A q \in exact : p <= q
        r == IF cycle_time <= PWM_MAX
             THEN [prescaler |-> 1, period |-> cycle_time]
             ELSE IF exact # {}
             THEN [prescaler |-> first, period |-> cycle_time \div first]
             ELSE [prescaler |-> limit,
                   period |-> DIV_ROUND_UP(cycle_time, limit)]
    IN  IF cycle_time = 0
        THEN [halt |-> "Invalid PWM cycle time", prescaler |-> 0, period |-> 0]
        ELSE [halt |-> "", prescaler |-> r.prescaler,
              period |-> IF r.period = 0 THEN 1 ELSE r.period]

\* CONFIG_CLOCK_FREQ / 1000000 of the build
CONFIG_CLOCK_MHZ == 144

\* the prescaler timer_init() gives TIM2: CONFIG_CLOCK_FREQ / 1000000 - 1
TIM2_PSC == CONFIG_CLOCK_MHZ - 1

\* CTLR1.CEN, PSC and ATRLR of a timer; TIM2 is the running tick timer
TimBase(G, t) ==
    IF t = 2
    THEN [CEN |-> 1, PSC |-> TIM2_PSC, ATRLR |-> G.TIM2.ATRLR, ARPE |-> 0]
    ELSE G.per.base[t]

\* gpio_pwm_setup, the branch of a stopped timer: PSC, ATRLR, RPTCR, ARPE, UG
pwm_program_timer(G, t, psc_reg, arr_reg) ==
    IF t = 2
    THEN [G EXCEPT !.TIM2 = [ATRLR |-> arr_reg % W16, CNT |-> 0]]
    ELSE [G EXCEPT !.per.base[t] =
              [CEN |-> 0, PSC |-> psc_reg, ATRLR |-> arr_reg, ARPE |-> 1]]

\* configure_channel: PWM mode 1 with preload, the channel's CCER bits off
configure_channel(G, info) ==
    [G EXCEPT !.per.chan[info.timer].OCM[info.channel] = "pwm1",
              !.per.chan[info.timer].CCER = @ \ {info.channel}]

gpio_pwm_write(G, g, val) ==
    IF g.ccr = 0 THEN G
    ELSE [G EXCEPT !.per.chan[g.timer].CCR[g.ccr] =
              IF val > g.top THEN g.top ELSE val]

\* gpio_pwm_setup, from the second SWEVGR = UG to the return
pwm_start(G, info) ==
    LET G1 == IF info.timer = 2 THEN [G EXCEPT !.TIM2.CNT = 0] ELSE G
        G2 == [G1 EXCEPT !.per.chan[info.timer].CCER = @ \cup {info.channel}]
        G3 == IF info.timer = 2 THEN G2
              ELSE [G2 EXCEPT !.per.base[info.timer].CEN = 1]
    IN  IF info.timer = 1 THEN [G3 EXCEPT !.per.MOE = 1] ELSE G3

\* the handle of no PWM output
NoPwm == [timer |-> 0, ccr |-> 0, top |-> 0, channel |-> 0]

\* gpio_pwm_setup(uint8_t pin, ...): the parameter keeps the low 8 bits of
\* the pin number it is called with
gpio_pwm_setup(G, pin, cycle_time, val) ==
    LET pin8 == pin % 256
        k == lookup_pwm_info(G, pin8)
        info == pwm_map(G.per.have)[k]
        G1 == apply_remap(G, info)
        c == compute_timer_period(cycle_time)
        psc_reg == c.prescaler - 1
        arr_reg == c.period - 1
        tb == TimBase(G1, info.timer)
        G2 == IF tb.CEN = 1
              THEN IF tb.PSC # psc_reg \/ tb.ATRLR # arr_reg
                   THEN shutdown(G1, "PWM already programmed at different speed")
                   ELSE G1
              ELSE pwm_program_timer(G1, info.timer, psc_reg, arr_reg)
        G3 == gpio_peripheral(configure_channel(G2, info), info.pin,
                  GPIO_CONFIG(GPIO_MODE_OUTPUT_50MHZ, GPIO_CNF_AF_PUSHPULL), 0)
        g == [timer |-> info.timer, ccr |-> info.channel, top |-> arr_reg,
              channel |-> info.channel]
    IN  IF k = 0 THEN shutdown(G, "Not a valid PWM pin")
        ELSE IF G1.halt # "" THEN G1
        ELSE IF c.halt # "" THEN shutdown(G1, c.halt)
        ELSE IF G2.halt # "" THEN G2
        ELSE IF G3.halt # "" THEN G3
        ELSE [pwm_start(gpio_pwm_write(G3, g, val), info) EXCEPT !.pwm = g]

\* a / d and a % d of a 32-bit word a by 0 < d <= 2^16, digit by digit in
\* base 256
UDigits(a) == <<a[1] \div 256, a[1] % 256, a[2] \div 256, a[2] % 256>>

URem(a, d, k) ==
    LET n == UDigits(a)
        r1 == n[1] % d
        r2 == (r1 * 256 + n[2]) % d
        r3 == (r2 * 256 + n[3]) % d
    IN  CASE k = 0 -> 0 [] k = 1 -> r1 [] k = 2 -> r2 [] k = 3 -> r3
          [] k = 4 -> (r3 * 256 + n[4]) % d

UDiv32(a, d) ==
    LET n == UDigits(a)
        q(k) == (URem(a, d, k - 1) * 256 + n[k]) \div d
    IN  <<q(1) * 256 + q(2), q(3) * 256 + q(4)>>

UMod32(a, d) == URem(a, d, 4)

\* DIV_ROUND_UP(n, d) on uint32_t: ((n) + (d) - 1) / (d), the sum modulo 2^32
DIV_ROUND_UP_u32(n, d) == UDiv32(Sub32(Add32(n, U32(d)), <<0, 1>>), d)

\* compute_timer_period on uint32_t.  The result is [halt, div0, prescaler,
\* period]: div0 is 1 when DIV_ROUND_UP divided by zero, and then z is the
\* value the division gave.
compute_timer_period_u32(cycle_time, z) ==
    LET limit == DIV_ROUND_UP_u32(cycle_time, PWM_MAX)[2]
        exact == {p \in 1 .. limit :
                     /\ UMod32(cycle_time, p) = 0
                     /\ ~LT32(U32(PWM_MAX), UDiv32(cycle_time, p))}
        first == CHOOSE p \in exact : \A q \in exact : p <= q
        r == IF ~LT32(U32(PWM_MAX), cycle_time)
             THEN [div0 |-> 0, prescaler |-> 1, period |-> cycle_time]
             ELSE IF exact # {}
             THEN [div0 |-> 0, prescaler |-> first,
                   period |-> UDiv32(cycle_time, first)]
             ELSE IF limit = 0
             THEN [div0 |-> 1, prescaler |-> limit, period |-> z]
             ELSE [div0 |-> 0, prescaler |-> limit,
                   period |-> DIV_ROUND_UP_u32(cycle_time, limit)]
    IN  IF cycle_time = Z32
        THEN [halt |-> "Invalid PWM cycle time", div0 |-> 0,
              prescaler |-> 0, period |-> Z32]
        ELSE [halt |-> "", div0 |-> r.div0, prescaler |-> r.prescaler,
              period |-> IF r.period = Z32 THEN <<0, 1>> ELSE r.period]

\* gpio_pwm_write on uint32_t: the value stored to *g.ccr
gpio_pwm_write_u32(top, val) == IF LT32(top, val) THEN top ELSE val

\* adc_pin_map[]: PA0..PA7, PB0, PB1, PC0..PC5, the channels in order
adc_pin_map ==
    [k \in 1 .. 8 |-> GPIO(0, k - 1)] \o <<GPIO(1, 0), GPIO(1, 1)>>
    \o [k \in 1 .. 6 |-> GPIO(2, k - 1)]

adc_init_once(G) == [G EXCEPT !.per.adc_initialized = 1]

\* gpio_adc_setup: G.adc is the channel of the struct gpio_adc it returns
gpio_adc_setup(G, pin) ==
    LET G1 == adc_init_once(G)
        found == {k \in 1 .. Len(adc_pin_map) : adc_pin_map[k] = pin}
        chan == IF found = {} THEN Len(adc_pin_map)
                ELSE (CHOOSE k \in found : \A j \in found : k <= j) - 1
        G2 == gpio_peripheral(G1, pin,
                  GPIO_CONFIG(GPIO_MODE_INPUT, GPIO_CNF_ANALOG), 0)
    IN  IF chan >= Len(adc_pin_map)
        THEN shutdown(G1, "Not a valid ADC pin")
        ELSE [G2 EXCEPT !.adc = chan]

\* AFIO->PCFR1, the PWM timers and the ADC after reset, in a build with the
\* CONFIG_HAVE_PWM_TIMn of have
PeriphReset(have) ==
    [have |-> have, PCFR1 |-> 0, adc_initialized |-> 0, MOE |-> 0,
     base |-> [t \in Timers \ {2} |->
                  [CEN |-> 0, PSC |-> 0, ATRLR |-> 0, ARPE |-> 0]],
     chan |-> [t \in Timers |->
                  [OCM |-> [c \in PwmChannels |-> "frozen"],
                   CCR |-> [c \in PwmChannels |-> 0],
                   CCER |-> {}]]]

----------------------------------------------------------------------------
(* main.c: riscv_main and the initialisation functions it runs, timer_init *)
(* one step per store.  sched_main is not part of the sources: it is taken *)
(* as the scheduler that first runs every function registered with        *)
(* DECL_INIT and then runs the tasks, without returning.                  *)

\* the calls of riscv_main in program order (a build with CONFIG_SERIAL)
riscv_main ==
    <<"SystemInit", "clock_init", "gpio_init", "timer_init", "serial_init",
      "sched_main">>

\* the functions registered with DECL_INIT, which sched_main runs first
DECL_INIT == <<"timer_init", "serial_init">>

\* the statements of timer_init that the model follows, in program order
timer_init ==
    <<"irq_save", "ATRLR", "CNT", "CEN", "timer_base", "timer_kick",
      "irq_restore">>

\* TIM2->ATRLR = 1000U, as the 16-bit register keeps it
TimerInitPeriod == 1000

\* boot.at: the call of riscv_main or the entry of DECL_INIT that is next (by
\* says which of the two lists); boot.ti: the statement of timer_init that is
\* next, 0 outside timer_init; boot.inits and boot.zeroed count the runs of
\* timer_init and its stores of 0 to timer_base
BootStart ==
    [by |-> "riscv_main", at |-> 1, ti |-> 0, flag |-> 0, CEN |-> 0,
     inits |-> 0, zeroed |-> 0]

\* the list of calls being run, and the call that is next
BootList == IF boot.by = "riscv_main" THEN riscv_main ELSE DECL_INIT

BootAt ==
    IF boot.by = "tasks" \/ boot.ti # 0 THEN "none" ELSE BootList[boot.at]

\* after the call that is next: the next call of the list; sched_main does
\* not return, and after the last DECL_INIT function it runs the tasks
BootAfter ==
    IF boot.at < Len(BootList)
    THEN [boot EXCEPT !.at = @ + 1, !.ti = 0]
    ELSE [boot EXCEPT !.by = "tasks", !.at = 1, !.ti = 0]

\* SystemInit, clock_init, gpio_init, serial_init: nothing of the model changes
BootCall ==
    /\ BootAt \in {"SystemInit", "clock_init", "gpio_init", "serial_init"}
    /\ boot' = BootAfter
    /\ UNCHANGED <<gpioVars, mie, timerVars, jmpVars, periph, usart>>

\* sched_main starts on the functions registered with DECL_INIT
SchedMain ==
    /\ BootAt = "sched_main"
    /\ boot' = [boot EXCEPT !.by = "DECL_INIT", !.at = 1]
    /\ UNCHANGED <<gpioVars, mie, timerVars, jmpVars, periph, usart>>

\* timer_init is called
TimerInitCall ==
    /\ BootAt = "timer_init"
    /\ boot' = [boot EXCEPT !.ti = 1, !.inits = @ + 1]
    /\ UNCHANGED <<gpioVars, mie, timerVars, jmpVars, periph, usart>>

\* timer_init: its next statement, timer_kick() apart
TimerInitStep ==
    /\ boot.ti # 0
    /\ mctx.pc = "idle"
    /\ LET st == timer_init[boot.ti]
       IN  /\ st # "timer_kick"
           /\ mie' = CASE st = "irq_save" -> 0
                       [] st = "irq_restore" -> boot.flag
                       [] OTHER -> mie
           /\ TIM_ATRLR' = IF st = "ATRLR" THEN TimerInitPeriod ELSE TIM_ATRLR
           /\ TIM_CNT' = IF st = "CNT" THEN 0 ELSE TIM_CNT
           /\ timer_base' = IF st = "timer_base" THEN Z32 ELSE timer_base
           /\ boot' = IF st = "irq_restore" THEN BootAfter
                      ELSE [boot EXCEPT
                              !.ti = @ + 1,
                              !.flag = IF st = "irq_save" THEN mie ELSE @,
                              !.CEN = IF st = "CEN" THEN 1 ELSE @,
                              !.zeroed = IF st = "timer_base" THEN @ + 1 ELSE @]
    /\ UNCHANGED <<TIM_UIF, ldOrder, mctx, hstk, ticks, reads, fold, roll, sn>>
    /\ UNCHANGED <<gpioVars, jmpVars, periph, usart>>

\* timer_init: the call of timer_kick(), which the mainline then runs
TimerInitKick ==
    /\ boot.ti # 0
    /\ mctx.pc = "idle"
    /\ timer_init[boot.ti] = "timer_kick"
    /\ mctx' = [IdleCtx EXCEPT !.fn = "kick", !.pc = "k_ld1"]
    /\ boot' = [boot EXCEPT !.ti = @ + 1]
    /\ UNCHANGED <<timer_base, TIM_CNT, TIM_ATRLR, TIM_UIF, ldOrder, hstk,
                   ticks, reads, fold, roll, sn, mie>>
    /\ UNCHANGED <<gpioVars, jmpVars, periph, usart>>

BootNext ==
    \/ BootCall
    \/ SchedMain
    \/ TimerInitCall
    \/ TimerInitStep
    \/ TimerInitKick
    \/ Tick
    \/ Load1
    \/ KickCall
    \/ SnNow
    \/ SnStore

\* sched_main runs the tasks: every initialisation is done, the timer counts
BootDone ==
    boot = [by |-> "tasks", at |-> 1, ti |-> 0, flag |-> 0, CEN |-> 1,
            inits |-> 2, zeroed |-> 2]

----------------------------------------------------------------------------
(* setjmp.c: the register context saved in a jmp_buf and reloaded from it. *)

\* setjmp.h: the fields of __jmp_buf in order, each a uint32_t
jmp_buf_fields ==
    <<"ra", "sp", "s0", "s1", "s2", "s3", "s4", "s5", "s6", "s7", "s8", "s9",
      "s10", "s11">>

SavedRegs == {jmp_buf_fields[i] : i \in DOMAIN jmp_buf_fields}

\* the byte offsets of the words of a jmp_buf
BufOffsets == {4 * (i - 1) : i \in DOMAIN jmp_buf_fields}

Registers == SavedRegs \cup {"a0", "a1", "pc"}

\* setjmp: "sw reg, offset(buf)", in program order
setjmp_stores ==
    << <<"ra", 0>>, <<"sp", 4>>, <<"s0", 8>>, <<"s1", 12>>, <<"s2", 16>>,
       <<"s3", 20>>, <<"s4", 24>>, <<"s5", 28>>, <<"s6", 32>>, <<"s7", 36>>,
       <<"s8", 40>>, <<"s9", 44>>, <<"s10", 48>>, <<"s11", 52>> >>

\* the loads with the offsets of s0 and s1 exchanged
longjmp_loads_swapped ==
    << <<"ra", 0>>, <<"sp", 4>>, <<"s0", 12>>, <<"s1", 8>>, <<"s2", 16>>,
       <<"s3", 20>>, <<"s4", 24>>, <<"s5", 28>>, <<"s6", 32>>, <<"s7", 36>>,
       <<"s8", 40>>, <<"s9", 44>>, <<"s10", 48>>, <<"s11", 52>> >>

\* longjmp: "lw reg, offset(buf)", in program order
longjmp_loads ==
    << <<"ra", 0>>, <<"sp", 4>>, <<"s0", 8>>, <<"s1", 12>>, <<"s2", 16>>,
       <<"s3", 20>>, <<"s4", 24>>, <<"s5", 28>>, <<"s6", 32>>, <<"s7", 36>>,
       <<"s8", 40>>, <<"s9", 44>>, <<"s10", 48>>, <<"s11", 52>> >>

\* the buffer E after the first k stores of the registers R
RECURSIVE StoreWords(_, _, _)
StoreWords(E, R, k) ==
    IF k = 0
    THEN E
    ELSE [StoreWords(E, R, k - 1) EXCEPT
            ![setjmp_stores[k][2]] = R[setjmp_stores[k][1]]]

\* the registers R after the first k loads from the buffer E
RECURSIVE LoadWords(_, _, _)
LoadWords(R, E, k) ==
    IF k = 0
    THEN R
    ELSE [LoadWords(R, E, k - 1) EXCEPT
            ![longjmp_loads[k][1]] = E[longjmp_loads[k][2]]]

\* setjmp(env): the stores, then "return 0" to the address in ra
setjmp(R, E) ==
    [env |-> StoreWords(E, R, Len(setjmp_stores)),
     regs |-> [R EXCEPT !["a0"] = 0, !["pc"] = R["ra"]]]

\* the value passed on as it is
longjmp_val_no_coercion(val) == val

\* longjmp: "if (val == 0) val = 1"
longjmp_val(val) == IF val = 0 THEN 1 ELSE val

\* longjmp(env, val): the loads, "mv a0, val", "jr ra"
longjmp(R, E, val) ==
    LET L == LoadWords(R, E, Len(longjmp_loads))
    IN  [L EXCEPT !["a0"] = longjmp_val(val), !["pc"] = L["ra"]]

\* the data words registers are given
Words == 0 .. MaxWord

\* code addresses, apart from the data words: the code that calls setjmp and
\* longjmp, the entries of the two functions, and the return addresses of
\* the two calls
CodeAddr(k) == MaxWord + k

CallerCode == CodeAddr(1)

SetjmpEntry == CodeAddr(2)

SetjmpSite == CodeAddr(3)

LongjmpEntry == CodeAddr(4)

LongjmpSite == CodeAddr(5)

\* the values passed to longjmp (an int): 0, 1, another positive, a negative
JmpVals == {0, 1, MaxWord, -1}

\* no setjmp called yet: the register changes made, the calls of setjmp and
\* the longjmp executions, the value passed to longjmp, the return values seen
\* at the call site of setjmp, the registers at the call of setjmp and at
\* the call of longjmp
NoJmp ==
    [writes |-> 0, sets |-> 0, jumps |-> 0, val |-> 0, rets |-> <<>>,
     snap |-> [r \in Registers |-> 0], before |-> [r \in Registers |-> 0]]

JmpStart ==
    /\ cpu = [r \in Registers |-> IF r = "pc" THEN CallerCode ELSE 0]
    /\ env = [o \in BufOffsets |-> 0]
    /\ jhist = NoJmp

\* the running code changes a register
RegWrite(r, w) ==
    /\ cpu["pc"] = CallerCode
    /\ jhist.writes < MaxRegWrites
    /\ Len(jhist.rets) < 2
    /\ cpu' = [cpu EXCEPT ![r] = w]
    /\ jhist' = [jhist EXCEPT !.writes = @ + 1]
    /\ UNCHANGED <<env, outsideJmp>>

\* the call of setjmp(env): ra receives the return address
CallSetjmp ==
    /\ cpu["pc"] = CallerCode
    /\ jhist.sets = 0
    /\ cpu' = [cpu EXCEPT !["ra"] = SetjmpSite, !["pc"] = SetjmpEntry]
    /\ jhist' = [jhist EXCEPT !.sets = 1, !.snap = cpu']
    /\ UNCHANGED <<env, outsideJmp>>

SetjmpRun ==
    /\ cpu["pc"] = SetjmpEntry
    /\ cpu' = setjmp(cpu, env).regs
    /\ env' = setjmp(cpu, env).env
    /\ UNCHANGED <<jhist, outsideJmp>>

\* control is at the return address of the setjmp call: the caller reads the
\* return value and goes on
SetjmpReturned ==
    /\ cpu["pc"] = SetjmpSite
    /\ jhist' = [jhist EXCEPT !.rets = Append(@, cpu["a0"])]
    /\ cpu' = [cpu EXCEPT !["pc"] = CallerCode]
    /\ UNCHANGED <<env, outsideJmp>>

\* the call of longjmp(env, val) after the first return of setjmp
CallLongjmp(val) ==
    /\ cpu["pc"] = CallerCode
    /\ Len(jhist.rets) = 1
    /\ cpu' = [cpu EXCEPT !["a1"] = val, !["ra"] = LongjmpSite,
                            !["pc"] = LongjmpEntry]
    /\ jhist' = [jhist EXCEPT !.val = val, !.before = cpu']
    /\ UNCHANGED <<env, outsideJmp>>

LongjmpRun ==
    /\ cpu["pc"] = LongjmpEntry
    /\ cpu' = longjmp(cpu, env, cpu["a1"])
    /\ jhist' = [jhist EXCEPT !.jumps = 1]
    /\ UNCHANGED <<env, outsideJmp>>

JmpNext ==
    \/ \E r \in SavedRegs \cup {"a0", "a1"}, w \in Words : RegWrite(r, w)
    \/ CallSetjmp
    \/ SetjmpRun
    \/ SetjmpReturned
    \/ \E val \in JmpVals : CallLongjmp(val)
    \/ LongjmpRun

----------------------------------------------------------------------------
(* The state of the digital-output layer, and the calls made on it. *)

\* the machine state the functions above work on, from the variables
GState ==
    [ch |-> at8236_channels, OUTDR |-> OUTDR, CFG |-> CFG, mie |-> mie,
     acq |-> acquired, ret |-> NoHandle, halt |-> "", per |-> periph,
     TIM2 |-> [ATRLR |-> TIM_ATRLR, CNT |-> TIM_CNT], pwm |-> NoPwm,
     adc |-> 0]

\* the variables after a function has run to its end with result G
GStore(G) ==
    /\ at8236_channels' = G.ch
    /\ OUTDR' = G.OUTDR
    /\ CFG' = G.CFG
    /\ mie' = G.mie
    /\ acquired' = G.acq

VirtualPins == AT8236_VIRTUAL_BASE .. (AT8236_VIRTUAL_MAX - 1)

\* the virtual pins the callers use: the step and dir pins of motors 1 and 3
UsedVirtualPins ==
    {BMCU_C_MOTOR_STEP(0), BMCU_C_MOTOR_DIR(0),
     BMCU_C_MOTOR_STEP(2), BMCU_C_MOTOR_DIR(2)}

\* the physical pins the callers use directly: a free pin, and a pin that is
\* also the low input of motor 1 (nothing in gpio.c reserves it)
PhysPins == {GPIO(0, 0), BMCU_C_MOTOR1_LOW}

Vals == 0 .. MaxVal

IsVirtualHandle(g) == g.regs = NULL /\ is_at8236_virtual(g.bit)

\* what `last` records of a completed call on pin number or handle bit p
Completed(op, virt, p) ==
    [op |-> op, virt |-> virt, ch |-> IF virt THEN at8236_index(p) ELSE NULL]

NoCall == [op |-> "none", pin |-> 0, val |-> 0, lv |-> <<0, 0>>, flag |-> 0]

\* gpio_init(), zero-initialised statics, no call made yet, and interrupts
\* enabled or not
GpioResetAt(enabled) ==
    /\ at8236_channels = [i \in Channels |-> ZeroChannel]
    /\ OUTDR = [p \in Ports |-> 0]
    /\ CFG = [p \in Ports |->
                 [n \in 0 .. 15 |-> GPIO_CONFIG(GPIO_MODE_INPUT, GPIO_CNF_FLOATING)]]
    /\ mie = enabled
    /\ handles = {}
    /\ acquired = [i \in Channels |-> 0]
    /\ last = [op |-> "none", virt |-> FALSE, ch |-> NULL]
    /\ gpc = "idle"
    /\ gop = NoCall

----------------------------------------------------------------------------
(* usart.c: USART1 with the RS-485 driver-enable pin.  The registers are    *)
(* sets of the flags that are 1.                                            *)

MaxQueue == 2

MaxSend == 3

\* #define CTLR1_FLAGS (UE | RE | TE | RXNEIE)
CTLR1_FLAGS == {"UE", "RE", "TE", "RXNEIE"}

\* STATR after reset: the data register is empty and no frame is in progress
STATR_RESET == {"TXE", "TC"}

\* before serial_init: the statics are zero, the interrupt is not enabled
UsartReset ==
    [STATR |-> STATR_RESET, CTLR1 |-> {}, shift |-> 0, de |-> 0,
     rs485_initialized |-> 0, irqen |-> 0, queue |-> 0, left |-> MaxSend,
     hpc |-> "idle", sr |-> {}, mpc |-> "idle"]

UsartQuiet == usart = UsartReset

\* static inline void rs485_set_direction(uint8_t drive_high)
rs485_set_direction(U, drive_high) ==
    IF U.rs485_initialized = 0
    THEN U
    ELSE [U EXCEPT !.de = drive_high]

\* a store to DATAR after a load of STATR: the byte waits in the data
\* register, TXE and TC read 0
WriteDATAR(U) == [U EXCEPT !.STATR = @ \ {"TXE", "TC"}]

\* a load of DATAR: RXNE reads 0
ReadDATAR(U) == [U EXCEPT !.STATR = @ \ {"RXNE", "ORE"}]

\* a byte is in the data register or in the shift register
Transmitting(U) == "TXE" \notin U.STATR \/ U.shift = 1

\* the interrupt line of USART1 is raised and the handler is not running
UsartIrqPending(U) ==
    /\ U.irqen = 1
    /\ U.hpc = "idle"
    /\ \/ "TXE" \in U.STATR /\ "TXEIE" \in U.CTLR1
       \/ "TC" \in U.STATR /\ "TCIE" \in U.CTLR1
       \/ U.STATR \cap {"RXNE", "ORE"} # {} /\ "RXNEIE" \in U.CTLR1

\* the statements of USART1_IRQHandler after the load of STATR into sr
usart_irq_rx(U) ==
    IF U.sr \cap {"RXNE", "ORE"} # {} THEN ReadDATAR(U) ELSE U

usart_irq_tx(U) ==
    IF "TXE" \in U.sr /\ "TXEIE" \in U.CTLR1
    THEN IF U.queue = 0
         THEN [U EXCEPT !.CTLR1 = CTLR1_FLAGS \cup {"TCIE"}]
         ELSE [WriteDATAR(U) EXCEPT !.queue = @ - 1]
    ELSE U

usart_irq_tc(U) ==
    IF "TC" \in U.sr /\ "TCIE" \in U.CTLR1
    THEN rs485_set_direction(
             [U EXCEPT !.STATR = @ \ {"TC"}, !.CTLR1 = CTLR1_FLAGS], 0)
    ELSE U

\* void serial_init(void); gpio_out_setup(GPIO_RTS, 0) drives the pin low
serial_init(U) ==
    [U EXCEPT !.CTLR1 = CTLR1_FLAGS, !.de = 0, !.rs485_initialized = 1,
              !.irqen = 1]

UsartStep(U) ==
    /\ usart' = U
    /\ UNCHANGED <<gpioVars, mie, timerVars, jmpVars, boot, periph>>

SerialInit ==
    /\ usart.rs485_initialized = 0
    /\ UsartStep(serial_init(usart))

\* the mainline puts one byte in the TX queue and then has to call
\* serial_enable_tx_irq
ConsoleSend ==
    /\ usart.rs485_initialized = 1
    /\ usart.mpc = "idle"
    /\ usart.hpc = "idle"
    /\ ~UsartIrqPending(usart)
    /\ usart.queue < MaxQueue
    /\ usart.left > 0
    /\ UsartStep([usart EXCEPT !.queue = @ + 1, !.left = @ - 1,
                               !.mpc = "set_direction"])

\* serial_enable_tx_irq: rs485_set_direction(1);
EnableTxDirection ==
    /\ usart.mpc = "set_direction"
    /\ usart.hpc = "idle"
    /\ ~UsartIrqPending(usart)
    /\ UsartStep([rs485_set_direction(usart, 1) EXCEPT !.mpc = "set_ctlr1"])

\* serial_enable_tx_irq: USARTx->CTLR1 = CTLR1_FLAGS | USART_CTLR1_TXEIE;
EnableTxIrq ==
    /\ usart.mpc = "set_ctlr1"
    /\ usart.hpc = "idle"
    /\ ~UsartIrqPending(usart)
    /\ UsartStep([usart EXCEPT !.CTLR1 = CTLR1_FLAGS \cup {"TXEIE"},
                               !.mpc = "idle"])

\* the interrupt is taken: uint32_t sr = USARTx->STATR;
UsartIrqEnter ==
    /\ UsartIrqPending(usart)
    /\ UsartStep([usart EXCEPT !.sr = usart.STATR, !.hpc = "rx"])

UsartIrqRx ==
    /\ usart.hpc = "rx"
    /\ UsartStep([usart_irq_rx(usart) EXCEPT !.hpc = "tx"])

UsartIrqTx ==
    /\ usart.hpc = "tx"
    /\ UsartStep([usart_irq_tx(usart) EXCEPT !.hpc = "tc"])

UsartIrqTc ==
    /\ usart.hpc = "tc"
    /\ UsartStep([usart_irq_tc(usart) EXCEPT !.hpc = "idle", !.sr = {}])

\* the transmitter takes the byte of the data register into its shift
\* register: TXE reads 1
HwLoad ==
    /\ "TXE" \notin usart.STATR
    /\ usart.shift = 0
    /\ UsartStep([usart EXCEPT !.shift = 1, !.STATR = @ \cup {"TXE"}])

\* the last bit of the frame has left the shift register: TC reads 1 when
\* no byte waits in the data register
HwShiftDone ==
    /\ usart.shift = 1
    /\ UsartStep([usart EXCEPT
           !.shift = 0,
           !.STATR = IF "TXE" \in @ THEN @ \cup {"TC"} ELSE @])

\* the receiver has a byte: RXNE reads 1
HwReceive ==
    /\ usart.rs485_initialized = 1
    /\ "RXNE" \notin usart.STATR
    /\ UsartStep([usart EXCEPT !.STATR = @ \cup {"RXNE"}])

UsartMainline == EnableTxDirection \/ EnableTxIrq

UsartHandler == UsartIrqEnter \/ UsartIrqRx \/ UsartIrqTx \/ UsartIrqTc

UsartTransmitter == HwLoad \/ HwShiftDone

UsartNext ==
    \/ SerialInit \/ ConsoleSend \/ EnableTxDirection \/ EnableTxIrq
    \/ UsartIrqEnter \/ UsartIrqRx \/ UsartIrqTx \/ UsartIrqTc
    \/ HwLoad \/ HwShiftDone \/ HwReceive

\* a build without the PWM rows of TIM1 and TIM4, no PWM or ADC set up
PeriphQuiet == periph = PeriphReset({})

\* the same with interrupts enabled
GpioReset == GpioResetAt(1)

GpioInit ==
    GpioReset /\ TimerQuiet /\ JmpStart /\ BootDone /\ PeriphQuiet /\ UsartQuiet

\* after riscv_main's gpio_init() and timer_init(), with either order of the
\* two loads of current_ticks
TimerInit ==
    /\ GpioReset
    /\ JmpStart
    /\ BootDone
    /\ PeriphQuiet
    /\ UsartQuiet
    /\ \E base \in StartBases, order \in {"base_first", "cnt_first"} :
           TimerQuietAt(base, order)

\* a call of the function op that ended in shutdown(): it never returns
Shutdown(op, pin, val) ==
    /\ gpc' = "shutdown"
    /\ gop' = [NoCall EXCEPT !.op = op, !.pin = pin, !.val = val]
    /\ UNCHANGED <<handles, last>>

GpioOutSetup(pin, val) ==
    /\ gpc = "idle"
    /\ LET G == gpio_out_setup(GState, pin, val)
       IN  /\ GStore(G)
           /\ IF G.halt # ""
              THEN Shutdown("gpio_out_setup", pin, val)
              ELSE /\ handles' = handles \cup {G.ret}
                   /\ last' = Completed("setup", is_at8236_virtual(pin), pin)
                   /\ UNCHANGED <<gpc, gop>>
    /\ UNCHANGED outsideGpio

GpioOutWrite(g, val) ==
    /\ gpc = "idle"
    /\ GStore(gpio_out_write(GState, g, val))
    /\ last' = Completed("write", IsVirtualHandle(g), g.bit)
    /\ UNCHANGED <<handles, gpc, gop>>
    /\ UNCHANGED outsideGpio

GpioOutToggleNoirq(g) ==
    /\ gpc = "idle"
    /\ GStore(gpio_out_toggle_noirq(GState, g))
    /\ last' = Completed("toggle", IsVirtualHandle(g), g.bit)
    /\ UNCHANGED <<handles, gpc, gop>>
    /\ UNCHANGED outsideGpio

GpioOutToggle(g) ==
    /\ gpc = "idle"
    /\ GStore(gpio_out_toggle(GState, g))
    /\ last' = Completed("toggle", IsVirtualHandle(g), g.bit)
    /\ UNCHANGED <<handles, gpc, gop>>
    /\ UNCHANGED outsideGpio

GpioOutReset(g, val) ==
    /\ gpc = "idle"
    /\ GStore(gpio_out_reset(GState, g, val))
    /\ last' = Completed("reset", IsVirtualHandle(g), g.bit)
    /\ UNCHANGED <<handles, gpc, gop>>
    /\ UNCHANGED outsideGpio

GpioNext ==
    \/ \E pin \in UsedVirtualPins \cup PhysPins, val \in Vals : GpioOutSetup(pin, val)
    \/ \E g \in handles, val \in Vals : GpioOutWrite(g, val)
    \/ \E g \in handles : GpioOutToggleNoirq(g)
    \/ \E g \in handles : GpioOutToggle(g)
    \/ \E g \in handles, val \in Vals : GpioOutReset(g, val)

GpioSpec == GpioInit /\ [][GpioNext]_vars

----------------------------------------------------------------------------
(* The decoding of a virtual pin for any BMCU_C_AT8236_PIN_STRIDE: the     *)
(* three functions with the stride as a parameter, applied to a pin        *)
(* between two calls.  gop keeps the pin, the stride (val) and the decoded *)
(* index and role (lv); the behaviour ends with the decoding.              *)

MaxStride == 4

Strides == 1 .. MaxStride

AT8236_VIRTUAL_MAX_stride(stride) == AT8236_VIRTUAL_BASE + stride * 4

\* is_at8236_virtual with pin <= AT8236_VIRTUAL_MAX
is_at8236_virtual_inclusive(stride, pin) ==
    pin >= AT8236_VIRTUAL_BASE /\ pin <= AT8236_VIRTUAL_MAX_stride(stride)

is_at8236_virtual_stride(stride, pin) ==
    pin >= AT8236_VIRTUAL_BASE /\ pin < AT8236_VIRTUAL_MAX_stride(stride)

at8236_index_stride(stride, pin) ==
    ((pin - AT8236_VIRTUAL_BASE) \div stride) % 256

\* the pin numbers tried: from below the range to above the widest range
DecodePins == (AT8236_VIRTUAL_BASE - 2) .. (AT8236_VIRTUAL_MAX_stride(MaxStride) + 2)

PinDecode(stride, pin) ==
    /\ gpc = "idle"
    /\ gop = NoCall
    /\ is_at8236_virtual_stride(stride, pin)
    /\ gop' = [op |-> "decode", pin |-> pin, val |-> stride, flag |-> 0,
               lv |-> <<at8236_index_stride(stride, pin), at8236_role(pin)>>]
    /\ UNCHANGED <<at8236_channels, OUTDR, CFG, mie, acquired, handles, last, gpc>>
    /\ UNCHANGED outsideGpio

\* the calls of GpioSpec, and the decoding of a pin
GpioDecodeNext ==
    \/ \E stride \in Strides, pin \in DecodePins : PinDecode(stride, pin)
    \/ gop = NoCall /\ GpioNext

GpioDecodeSpec == GpioInit /\ [][GpioDecodeNext]_vars

----------------------------------------------------------------------------
(* The same calls on virtual pins, one step per store of at8236_write,     *)
(* at8236_toggle and at8236_setup_pin: the logical bit, the decision of    *)
(* at8236_apply, the write of high_pin, the write of low_pin.              *)

StepOps == {"setup", "write", "reset", "toggle_noirq", "toggle"}

\* entry of the call, up to and including the store to the logical bit
VCallBit(op, pin, val) ==
    /\ gpc = "idle"
    /\ op = "setup" \/ [regs |-> NULL, bit |-> pin] \in handles
    /\ LET G0 == IF op = "toggle" THEN [GState EXCEPT !.mie = 0] ELSE GState
           G == CASE op = "setup" ->
                       at8236_set_bit(at8236_configure(G0, at8236_index(pin)), pin, val)
                  [] op \in {"write", "reset"} -> at8236_set_bit(G0, pin, val)
                  [] op \in {"toggle_noirq", "toggle"} -> at8236_xor_bit(G0, pin)
       IN  GStore(G)
    /\ gop' = [op |-> op, pin |-> pin, val |-> val, lv |-> <<0, 0>>, flag |-> mie]
    /\ gpc' = "decide"
    /\ UNCHANGED <<handles, last>>
    /\ UNCHANGED outsideGpio

\* the return of the call
VReturn ==
    /\ handles' = IF gop.op = "setup"
                  THEN handles \cup {[regs |-> NULL, bit |-> gop.pin]}
                  ELSE handles
    /\ last' = Completed(IF gop.op = "toggle_noirq" THEN "toggle" ELSE gop.op,
                         TRUE, gop.pin)
    /\ gpc' = "idle"
    /\ gop' = NoCall

\* at8236_apply: the tests of configured, step_state and dir_state
VApplyDecide ==
    /\ gpc = "decide"
    /\ LET c == at8236_channels[at8236_index(gop.pin)]
       IN  IF c.configured = 0
           THEN /\ VReturn
                /\ mie' = IF gop.op = "toggle" THEN gop.flag ELSE mie
           ELSE /\ gop' = [gop EXCEPT !.lv = at8236_levels(c)]
                /\ gpc' = "wr_high"
                /\ UNCHANGED <<handles, last, mie>>
    /\ UNCHANGED <<at8236_channels, OUTDR, CFG, acquired>>
    /\ UNCHANGED outsideGpio

\* at8236_apply: gpio_out_write_hw(ch->high_pin, ...)
VApplyWriteHigh ==
    /\ gpc = "wr_high"
    /\ GStore(gpio_out_write_hw(GState,
                  at8236_channels[at8236_index(gop.pin)].high_pin, gop.lv[1]))
    /\ gpc' = "wr_low"
    /\ UNCHANGED <<handles, last, gop>>
    /\ UNCHANGED outsideGpio

\* at8236_apply: gpio_out_write_hw(ch->low_pin, ...), and the return
VApplyWriteLow ==
    /\ gpc = "wr_low"
    /\ LET G == gpio_out_write_hw(GState,
                    at8236_channels[at8236_index(gop.pin)].low_pin, gop.lv[2])
       IN  GStore(IF gop.op = "toggle" THEN [G EXCEPT !.mie = gop.flag] ELSE G)
    /\ VReturn
    /\ UNCHANGED outsideGpio

GpioStepNext ==
    \/ \E op \in StepOps, pin \in UsedVirtualPins, val \in Vals : VCallBit(op, pin, val)
    \/ VApplyDecide
    \/ VApplyWriteHigh
    \/ VApplyWriteLow

GpioStepSpec == GpioInit /\ [][GpioStepNext]_vars

----------------------------------------------------------------------------
(* An interrupt handler that calls gpio_out_write or gpio_out_toggle on a   *)
(* virtual pin while a call of the mainline on the same channel is between *)
(* its store to the logical bit and its last pin write.  The handler runs  *)
(* to its return before the mainline goes on, so its call is one step.     *)

\* an interrupt is taken during the call in progress, on the channel of g
IrqDuringCall(g) ==
    /\ gpc \in {"decide", "wr_high", "wr_low"}
    /\ mie = 1
    /\ IsVirtualHandle(g)
    /\ at8236_index(g.bit) = at8236_index(gop.pin)

\* the handler's call: entered with interrupts disabled by the trap, and the
\* return from the trap enables them again
IrqCall(G, op, g) ==
    /\ GStore([G EXCEPT !.mie = 1])
    /\ last' = Completed(op, TRUE, g.bit)
    /\ UNCHANGED <<handles, gpc, gop>>
    /\ UNCHANGED outsideGpio

IrqGpioOutWrite(g, val) ==
    /\ IrqDuringCall(g)
    /\ IrqCall(gpio_out_write([GState EXCEPT !.mie = 0], g, val), "irq_write", g)

IrqGpioOutToggle(g) ==
    /\ IrqDuringCall(g)
    /\ IrqCall(gpio_out_toggle([GState EXCEPT !.mie = 0], g), "irq_toggle", g)

GpioIrqNext ==
    \/ \E op \in StepOps, pin \in UsedVirtualPins, val \in Vals : VCallBit(op, pin, val)
    \/ VApplyDecide
    \/ VApplyWriteHigh
    \/ VApplyWriteLow
    \/ \E g \in handles, val \in Vals : IrqGpioOutWrite(g, val)
    \/ \E g \in handles : IrqGpioOutToggle(g)

GpioIrqSpec == GpioInit /\ [][GpioIrqNext]_vars

----------------------------------------------------------------------------
(* The calls on a physical pin instruction by instruction: gpio_out_write, *)
(* gpio_out_toggle, gpio_out_reset and gpio_out_setup of the mainline, and *)
(* a handler that writes another pin of the same port whenever interrupts  *)
(* are enabled.  gpc is the step that is next, gop.lv the register value   *)
(* loaded, gop.flag the flag irq_save returned (at the call: mstatus.MIE   *)
(* on entry), gop.val the level the call is to leave on the pin.           *)

\* irq_save() with no csrrc: interrupts stay as they are
irq_save_no_mask(G) == G

irq_save(G) == [G EXCEPT !.mie = 0]

irq_restore(G, flag) == [G EXCEPT !.mie = flag]

\* gpio_out_write_hw: one store to BSHR or BCR
gpio_out_write_hw_steps == <<"store_bit">>

\* gpio_out_toggle on a physical pin: irq_save, OUTDR ^= bit, irq_restore
gpio_out_toggle_steps == <<"irq_save", "load_outdr", "store_outdr", "irq_restore">>

\* gpio_out_reset_hw with gpio_peripheral before gpio_out_write_hw
gpio_out_reset_hw_mode_first ==
    <<"irq_save", "load_cfg", "store_cfg", "store_bit", "irq_restore">>

\* gpio_out_reset_hw: irq_save, gpio_out_write_hw, gpio_peripheral (its
\* configure_pin loads and stores CFGLR or CFGHR), irq_restore
gpio_out_reset_hw_steps ==
    <<"irq_save", "store_bit", "load_cfg", "store_cfg", "irq_restore">>

PortOps == {"setup", "write", "toggle", "reset"}

PortSteps(op) ==
    CASE op = "write" -> gpio_out_write_hw_steps
      [] op = "toggle" -> gpio_out_toggle_steps
      [] op \in {"setup", "reset"} -> gpio_out_reset_hw_steps

PortStepNames == {"irq_save", "store_bit", "load_outdr", "store_outdr",
                  "load_cfg", "store_cfg", "irq_restore"}

\* three pins of port A: two of CFGLR and one of CFGHR
PortPins == {GPIO(0, 0), GPIO(0, 1), GPIO(0, 9)}

PinHandle(pin) == [regs |-> gpio_pin_to_regs(pin), bit |-> GPIO2BIT(pin)]

\* the eight 4-bit fields of CFGLR (pins 0..7) or CFGHR (pins 8..15)
CfgHalf(pnum) == IF pnum < 8 THEN 0 ELSE 8

CfgLoad(G, pin) ==
    [k \in 1 .. 8 |-> G.CFG[gpio_pin_to_regs(pin)][CfgHalf(pin % 16) + k - 1]]

\* *cfg = (loaded & ~mask) | (config << shift)
CfgStore(G, pin, loaded, config) ==
    LET half == CfgHalf(pin % 16)
    IN  [G EXCEPT !.CFG[gpio_pin_to_regs(pin)] =
            [n \in 0 .. 15 |->
                IF n < half \/ n >= half + 8 THEN @[n]
                ELSE IF n = pin % 16 THEN config % 16
                ELSE loaded[n - half + 1]]]

\* the call returns: the step after the last one
PortReturn ==
    /\ gpc' = "idle"
    /\ gop' = NoCall
    /\ handles' = IF gop.op = "setup" THEN handles \cup {PinHandle(gop.pin)}
                  ELSE handles
    /\ last' = Completed(gop.op, FALSE, gop.pin)

\* the step after gpc in the function that is running
PortAdvance ==
    LET s == PortSteps(gop.op)
        i == CHOOSE k \in 1 .. Len(s) : s[k] = gpc
    IN  IF i = Len(s)
        THEN PortReturn
        ELSE gpc' = s[i + 1] /\ UNCHANGED <<handles, last>>

PortCall(op, pin, val) ==
    /\ gpc = "idle"
    /\ op = "setup" \/ PinHandle(pin) \in handles
    /\ gpc' = PortSteps(op)[1]
    /\ gop' = [op |-> op, pin |-> pin, lv |-> <<0, 0>>, flag |-> mie,
               val |-> IF op # "toggle" THEN Bool01(val)
                      ELSE IF BitIsSet(OUTDR[GPIO2PORT(pin)], GPIO2BIT(pin))
                      THEN 0 ELSE 1]
    /\ UNCHANGED <<at8236_channels, OUTDR, CFG, mie, acquired, handles, last>>
    /\ UNCHANGED outsideGpio

PortIrqSave ==
    /\ gpc = "irq_save"
    /\ GStore(irq_save(GState))
    /\ gop' = [gop EXCEPT !.flag = mie]
    /\ PortAdvance
    /\ UNCHANGED outsideGpio

PortStoreBit ==
    /\ gpc = "store_bit"
    /\ GStore(gpio_out_write_hw(GState, PinHandle(gop.pin), gop.val))
    /\ IF gop.op = "write" THEN PortReturn
       ELSE PortAdvance /\ UNCHANGED gop
    /\ UNCHANGED outsideGpio

PortLoad ==
    /\ gpc \in {"load_outdr", "load_cfg"}
    /\ gop' = [gop EXCEPT !.lv =
                  IF gpc = "load_outdr"
                  THEN <<OUTDR[gpio_pin_to_regs(gop.pin)]>>
                  ELSE CfgLoad(GState, gop.pin)]
    /\ PortAdvance
    /\ UNCHANGED <<at8236_channels, OUTDR, CFG, mie, acquired>>
    /\ UNCHANGED outsideGpio

PortStore ==
    /\ gpc \in {"store_outdr", "store_cfg"}
    /\ GStore(IF gpc = "store_outdr"
              THEN [GState EXCEPT !.OUTDR[gpio_pin_to_regs(gop.pin)] =
                       BitXor(gop.lv[1], GPIO2BIT(gop.pin))]
              ELSE CfgStore(GState, gop.pin, gop.lv,
                       GPIO_CONFIG(GPIO_MODE_OUTPUT_50MHZ, GPIO_CNF_GP_PUSHPULL)))
    /\ PortAdvance
    /\ UNCHANGED gop
    /\ UNCHANGED outsideGpio

PortIrqRestore ==
    /\ gpc = "irq_restore"
    /\ GStore(irq_restore(GState, gop.flag))
    /\ PortReturn
    /\ UNCHANGED outsideGpio

\* a handler's gpio_out_write on another pin of the port, taken while the
\* call of the mainline is in progress and interrupts are enabled
IrqPortWrite(g, val) ==
    /\ gpc \in PortStepNames
    /\ mie = 1
    /\ g.regs = gpio_pin_to_regs(gop.pin)
    /\ g.bit # GPIO2BIT(gop.pin)
    /\ IrqCall(gpio_out_write([GState EXCEPT !.mie = 0], g, val), "irq_write", g)

\* the mainline enables or disables interrupts between two calls
PortIrqSet(en) ==
    /\ gpc = "idle"
    /\ mie' = en
    /\ UNCHANGED <<gpioVars, outsideGpio>>

GpioPortNext ==
    \/ \E op \in PortOps, pin \in PortPins, val \in Vals : PortCall(op, pin, val)
    \/ PortIrqSave
    \/ PortStoreBit
    \/ PortLoad
    \/ PortStore
    \/ PortIrqRestore
    \/ \E g \in handles, val \in Vals : IrqPortWrite(g, val)
    \/ \E en \in {0, 1} : PortIrqSet(en)

GpioPortSpec == GpioInit /\ [][GpioPortNext]_vars

----------------------------------------------------------------------------
(* compute_timer_period and gpio_pwm_write on 32-bit values, as            *)
(* gpio_pwm_setup uses them: gop.lv keeps cycle_time, the prescaler, the   *)
(* period, psc_reg, arr_reg (the top of the handle), the value written and *)
(* the value stored to the compare register.                              *)

\* what a division by zero can give: all ones (the divu instruction) or 0
DivByZero == {<<W16 - 1, W16 - 1>>, Z32}

CycleTimes32 ==
    {<<hi, lo>> : hi \in {0, 1, 2, W16 - 1}, lo \in {0, 1, 2, PwmCycle, W16 - 1}}

PwmVals32 == {Z32, <<0, 1>>, <<0, PwmCycle>>, <<0, W16 - 1>>, <<1, 0>>,
              <<W16 - 1, W16 - 1>>}

PwmComputePeriod(cycle_time, z) ==
    /\ gpc = "idle"
    /\ gop.op = "none"
    /\ LET c == compute_timer_period_u32(cycle_time, z)
       IN  IF c.halt # ""
           THEN /\ gpc' = "shutdown"
                /\ gop' = [NoCall EXCEPT !.op = "compute_timer_period"]
           ELSE /\ gpc' = "idle"
                /\ gop' = [op |-> "compute_timer_period", pin |-> 0,
                           val |-> 0, flag |-> c.div0,
                           lv |-> [cycle_time |-> cycle_time,
                                   prescaler |-> c.prescaler, period |-> c.period,
                                   psc_reg |-> Sub32(U32(c.prescaler), <<0, 1>>),
                                   arr_reg |-> Sub32(c.period, <<0, 1>>),
                                   val |-> Z32, ccr |-> Z32]]
    /\ UNCHANGED <<at8236_channels, OUTDR, CFG, mie, acquired, handles, last>>
    /\ UNCHANGED outsideGpio

PwmWrite(val) ==
    /\ gpc = "idle"
    /\ gop.op = "compute_timer_period"
    /\ gop' = [gop EXCEPT !.op = "gpio_pwm_write", !.lv.val = val,
                          !.lv.ccr = gpio_pwm_write_u32(gop.lv.arr_reg, val)]
    /\ UNCHANGED <<at8236_channels, OUTDR, CFG, mie, acquired, handles, last, gpc>>
    /\ UNCHANGED outsideGpio

PwmPeriodNext ==
    \/ \E cycle_time \in CycleTimes32, z \in DivByZero :
           PwmComputePeriod(cycle_time, z)
    \/ \E val \in PwmVals32 : PwmWrite(val)

PwmPeriodSpec == GpioInit /\ [][PwmPeriodNext]_vars

----------------------------------------------------------------------------
(* The setup calls with any pin number: gpio_out_setup, gpio_in_setup,     *)
(* gpio_peripheral, gpio_pwm_setup and gpio_adc_setup, each one step.      *)

\* pin numbers outside the five ports: a pin of a sixth port, and the step
\* pin of motor 4 (a virtual pin, valid for gpio_out_setup alone)
BadPortPins == {GPIO(NumPorts, 0), BMCU_C_MOTOR_STEP(3)}

\* the pins the digital setups are called with: PA4 and the two above
DigitalPins == {GPIO(0, 4)} \cup BadPortPins

\* the pins gpio_pwm_setup is called with: PA0 (TIM2 channel 1), PA4 (no
\* PWM), PA6 (TIM3 channel 1), PB4 (TIM3 with partial remap)
PwmPins == {GPIO(0, 0), GPIO(0, 4), GPIO(0, 6), GPIO(1, 4)} \cup BadPortPins

\* the pins gpio_adc_setup is called with: PA4 (channel 4), PB4 (no ADC)
AdcPins == {GPIO(0, 4), GPIO(1, 4)} \cup BadPortPins

PullUps == {-1, 0, 1}

PeripheralModes ==
    {GPIO_CONFIG(GPIO_MODE_INPUT, GPIO_CNF_INPUT_PU_PD),
     GPIO_CONFIG(GPIO_MODE_OUTPUT_50MHZ, GPIO_CNF_AF_PUSHPULL)}

CycleTimes == {0, PwmCycle}

PwmVals == {0, 2 * PwmCycle}

\* what `last` records of a setup that returned, with the pin it was given
Returned(op, pin) == [op |-> op, virt |-> FALSE, ch |-> NULL, pin |-> pin]

\* the registers a setup has written, and what is left alone by all of them
SetupStore(G) ==
    /\ GStore(G)
    /\ periph' = G.per
    /\ TIM_ATRLR' = G.TIM2.ATRLR
    /\ TIM_CNT' = G.TIM2.CNT
    /\ UNCHANGED <<timer_base, TIM_UIF, ldOrder, mctx, hstk, ticks, reads,
                   fold, roll, sn, jmpVars, boot, usart>>

\* a setup call that is not gpio_out_setup: it returns or ends in shutdown
SetupCall(op, G, pin, val) ==
    /\ SetupStore(G)
    /\ IF G.halt # ""
       THEN Shutdown(op, pin, val)
       ELSE /\ last' = Returned(op, pin)
            /\ UNCHANGED <<handles, gpc, gop>>

GpioInSetup(pin, pull_up) ==
    /\ gpc = "idle"
    /\ SetupCall("gpio_in_setup", gpio_in_setup(GState, pin, pull_up), pin, 0)

GpioPeripheral(pin, mode, pull_up) ==
    /\ gpc = "idle"
    /\ SetupCall("gpio_peripheral",
                 gpio_peripheral(GState, pin, mode, pull_up), pin, 0)

GpioPwmSetup(pin, cycle_time, val) ==
    /\ gpc = "idle"
    /\ SetupCall("gpio_pwm_setup",
                 gpio_pwm_setup(GState, pin, cycle_time, val), pin, val)

GpioAdcSetup(pin) ==
    /\ gpc = "idle"
    /\ SetupCall("gpio_adc_setup", gpio_adc_setup(GState, pin), pin, 0)

SetupNext ==
    \/ \E pin \in DigitalPins, val \in Vals : GpioOutSetup(pin, val)
    \/ \E pin \in DigitalPins, pull_up \in PullUps : GpioInSetup(pin, pull_up)
    \/ \E pin \in DigitalPins, mode \in PeripheralModes, pull_up \in {0, 1} :
           GpioPeripheral(pin, mode, pull_up)
    \/ \E pin \in PwmPins, cycle_time \in CycleTimes, val \in PwmVals :
           GpioPwmSetup(pin, cycle_time, val)
    \/ \E pin \in AdcPins : GpioAdcSetup(pin)

\* as GpioInit, in a build with or without the PWM rows of TIM1 and TIM4
SetupInit ==
    /\ GpioReset
    /\ TimerQuiet
    /\ JmpStart
    /\ BootDone
    /\ \E have \in {{}, {1, 4}} : periph = PeriphReset(have)
    /\ UsartQuiet

JmpInit ==
    GpioReset /\ TimerQuiet /\ JmpStart /\ BootDone /\ PeriphQuiet /\ UsartQuiet

JmpSpec == JmpInit /\ [][JmpNext]_vars

SetupSpec == SetupInit /\ [][SetupNext]_vars

\* the entry of riscv_main: statics zero, interrupts disabled, TIM2 stopped
\* with its reset values, and either order of the two loads of current_ticks
BootInit ==
    /\ GpioResetAt(0)
    /\ JmpStart
    /\ PeriphQuiet
    /\ UsartQuiet
    /\ boot = BootStart
    /\ timer_base = Z32
    /\ TIM_CNT = 0
    /\ TIM_ATRLR = 0
    /\ TIM_UIF = 0
    /\ ldOrder \in {"base_first", "cnt_first"}
    /\ mctx = IdleCtx
    /\ hstk = <<>>
    /\ ticks = 0
    /\ reads = NoReads
    /\ fold = NoFold
    /\ roll = NoRoll
    /\ sn = NoSn

BootSpec == BootInit /\ [][BootNext]_vars

TimerSpec == TimerInit /\ [][TimerNext]_vars

DelaySpec == TimerInit /\ [][DelayNext]_vars

----------------------------------------------------------------------------
(* udelay in a context that runs with interrupts disabled (the mainline    *)
(* after irq_disable, or a handler), with a counter that never stops: the  *)
(* counter counts up to ATRLR and starts again at 0, the update interrupt  *)
(* stays pending and TIM2_IRQHandler, which alone adds to timer_base, does *)
(* not run.                                                                *)

\* the counter advances by one, for ever
CounterStep ==
    /\ boot.CEN = 1
    /\ ~IrqPending
    /\ IF TIM_CNT + 1 = TIM_ATRLR \/ TIM_CNT + 1 = W16
       THEN TIM_CNT' = 0 /\ TIM_UIF' = 1
       ELSE TIM_CNT' = TIM_CNT + 1 /\ TIM_UIF' = TIM_UIF
    /\ UNCHANGED <<timer_base, TIM_ATRLR, ldOrder, mctx, hstk, ticks, reads,
                   fold, roll, sn, mie>>
    /\ UNCHANGED outsideTimer

\* the instructions of udelay
UdelayStep == Load1 \/ UdelayEnd \/ UdelayTest

DelayLiveNext ==
    \/ CounterStep
    \/ \E usecs \in UdelayArgs : StartUdelay(usecs)
    \/ Load1
    \/ UdelayEnd
    \/ UdelayTest

\* as TimerInit, with interrupts disabled
DelayLiveInit ==
    /\ GpioResetAt(0)
    /\ JmpStart
    /\ BootDone
    /\ PeriphQuiet
    /\ UsartQuiet
    /\ \E base \in StartBases, order \in {"base_first", "cnt_first"} :
           TimerQuietAt(base, order)

\* the counter keeps counting and the processor keeps executing udelay
DelayLiveSpec ==
    /\ DelayLiveInit
    /\ [][DelayLiveNext]_vars
    /\ WF_vars(CounterStep)
    /\ WF_vars(UdelayStep)

\* USART1 from reset, before serial_init
UsartInit ==
    GpioReset /\ TimerQuiet /\ JmpStart /\ BootDone /\ PeriphQuiet /\ UsartQuiet

UsartSpec == UsartInit /\ [][UsartNext]_vars

\* the transmitter keeps shifting, and the processor keeps executing: the
\* handler when the interrupt is raised, the mainline between interrupts
UsartLiveSpec ==
    /\ UsartInit
    /\ [][UsartNext]_vars
    /\ WF_vars(UsartTransmitter)
    /\ SF_vars(UsartHandler)
    /\ SF_vars(UsartMainline)

Init == TimerInit

Next ==
    \/ GpioNext \/ GpioStepNext \/ TimerNext \/ DelayNext \/ JmpNext
    \/ SetupNext \/ BootNext \/ GpioIrqNext \/ GpioPortNext
    \/ GpioDecodeNext \/ PwmPeriodNext \/ DelayLiveNext \/ UsartNext

Spec == Init /\ [][Next]_vars

----------------------------------------------------------------------------
(* The physical pins of a channel, read back from the output registers. *)

PinLevel(pin) == IF BitIsSet(OUTDR[GPIO2PORT(pin)], GPIO2BIT(pin)) THEN 1 ELSE 0

HighLevel(idx) == PinLevel(high_map(idx))

LowLevel(idx) == PinLevel(low_map(idx))

\* a call on a virtual pin of channel idx has just completed
JustCompleted(idx) == gpc = "idle" /\ last.virt /\ last.ch = idx

----------------------------------------------------------------------------
(* Claims on the virtual-pin layer. *)

\* the output function as the description states it: <<high, low>>
ExpectedLevels(step, dir) ==
    CASE step = 0 -> <<0, 0>>
      [] step = 1 /\ dir = 1 -> <<0, 1>>
      [] step = 1 /\ dir = 0 -> <<1, 0>>

VirtualHandle(pin) == [regs |-> NULL, bit |-> pin]

\* the levels of the two physical pins of channel idx in machine state G
LevelsIn(G, idx) ==
    <<IF BitIsSet(G.OUTDR[GPIO2PORT(high_map(idx))], GPIO2BIT(high_map(idx)))
      THEN 1 ELSE 0,
      IF BitIsSet(G.OUTDR[GPIO2PORT(low_map(idx))], GPIO2BIT(low_map(idx)))
      THEN 1 ELSE 0>>

\* C1: after every completed gpio_out_setup, gpio_out_write, gpio_out_toggle or
\* gpio_out_reset on a step or dir virtual pin of a channel, the physical pair
\* (high_pin, low_pin) of that channel is not (1,1).
C1_NeverBothAfterCall ==
    \A i \in Channels :
        JustCompleted(i) => ~(HighLevel(i) = 1 /\ LowLevel(i) = 1)

\* a toggle on channel 0 has completed and its high side is driven
C1_Witness ==
    /\ JustCompleted(0)
    /\ last.op = "toggle"
    /\ at8236_channels[0].dir_state = 0
    /\ HighLevel(0) = 1
    /\ LowLevel(0) = 0

\* C2: at no moment of at8236_apply, in particular not between its write of
\* high_pin and its write of low_pin, are high_pin and low_pin both 1.
C2_NoTransientBoth ==
    \A i \in Channels :
        (gpc = "wr_low" /\ at8236_index(gop.pin) = i)
            => ~(HighLevel(i) = 1 /\ LowLevel(i) = 1)

\* C3: after every completed call on a virtual pin of a configured channel the
\* physical outputs are the output function of the logical bits; and on
\* channel 0, setup(step,1), setup(dir,1), write(step,0) leaves both pins low
\* and a following write(step,1) leaves low_pin = 1 and high_pin = 0.
C3_OutputFunction ==
    /\ \A i \in Channels :
          (JustCompleted(i) /\ at8236_channels[i].configured = 1)
              => <<HighLevel(i), LowLevel(i)>>
                     = ExpectedLevels(at8236_channels[i].step_state,
                                      at8236_channels[i].dir_state)
    /\ gpc = "idle" =>
          LET G1 == gpio_out_setup(GState, BMCU_C_MOTOR_STEP(0), 1)
              G2 == gpio_out_setup(G1, BMCU_C_MOTOR_DIR(0), 1)
              G3 == gpio_out_write(G2, G1.ret, 0)
              G4 == gpio_out_write(G3, G1.ret, 1)
          IN  /\ LevelsIn(G3, 0) = <<0, 0>>
              /\ LevelsIn(G4, 0) = <<0, 1>>

\* the end of the scenario on channel 0: step written to 1 with dir = 1
C3_Witness ==
    /\ JustCompleted(0)
    /\ last.op = "write"
    /\ {VirtualHandle(BMCU_C_MOTOR_STEP(0)), VirtualHandle(BMCU_C_MOTOR_DIR(0))}
           \subseteq handles
    /\ at8236_channels[0].step_state = 1
    /\ at8236_channels[0].dir_state = 1
    /\ HighLevel(0) = 0
    /\ LowLevel(0) = 1

\* the handles of the two virtual pins of channel idx returned so far
ChannelHandles(idx) ==
    {g \in handles : IsVirtualHandle(g) /\ at8236_index(g.bit) = idx}

\* C9: the two physical outputs of a channel are acquired exactly once, at the
\* first setup of either of its virtual pins, both as outputs driven low; the
\* configured flag is set from then on (handles are never given back, so it
\* does not return to 0).
C9_AcquiredOnce ==
    \A i \in Channels :
        /\ acquired[i] = (IF ChannelHandles(i) # {} THEN 1 ELSE 0)
        /\ at8236_channels[i].configured = acquired[i]
        /\ at8236_channels[i].configured = 1 =>
              /\ at8236_channels[i].high_pin
                     = [regs |-> GPIO2PORT(high_map(i)), bit |-> GPIO2BIT(high_map(i))]
              /\ at8236_channels[i].low_pin
                     = [regs |-> GPIO2PORT(low_map(i)), bit |-> GPIO2BIT(low_map(i))]
        /\ (gpc = "idle" /\ at8236_channels[i].configured = 0) =>
              LET G == at8236_configure(GState, i)
              IN  /\ LevelsIn(G, i) = <<0, 0>>
                  /\ G.CFG[GPIO2PORT(high_map(i))][high_map(i) % 16]
                         = GPIO_CONFIG(GPIO_MODE_OUTPUT_50MHZ, GPIO_CNF_GP_PUSHPULL)
                  /\ G.CFG[GPIO2PORT(low_map(i))][low_map(i) % 16]
                         = GPIO_CONFIG(GPIO_MODE_OUTPUT_50MHZ, GPIO_CNF_GP_PUSHPULL)

\* both virtual pins of channel 2 were set up, then written and toggled
C9_Witness ==
    /\ JustCompleted(2)
    /\ last.op = "toggle"
    /\ Cardinality(ChannelHandles(2)) = 2
    /\ acquired[2] = 1
    /\ at8236_channels[2].configured = 1

\* C10: from an unconfigured channel, setup(dir_pin, d) then setup(step_pin, s)
\* and setup(step_pin, s) then setup(dir_pin, d) both acquire the physical
\* outputs exactly once and end in the same logical bits and physical pins.
C10_SetupOrderIrrelevant ==
    \A i \in Channels, s \in Vals, d \in Vals :
        (gpc = "idle" /\ at8236_channels[i].configured = 0) =>
            LET A == gpio_out_setup(gpio_out_setup(GState, BMCU_C_MOTOR_DIR(i), d),
                                    BMCU_C_MOTOR_STEP(i), s)
                B == gpio_out_setup(gpio_out_setup(GState, BMCU_C_MOTOR_STEP(i), s),
                                    BMCU_C_MOTOR_DIR(i), d)
            IN  /\ A.acq[i] = acquired[i] + 1
                /\ B.acq[i] = acquired[i] + 1
                /\ A.ch = B.ch
                /\ A.OUTDR = B.OUTDR
                /\ A.ch[i].step_state = Bool01(s)
                /\ A.ch[i].dir_state = Bool01(d)

\* channel 2 after the setup of both of its pins, step and dir both 1
C10_Witness ==
    /\ JustCompleted(2)
    /\ last.op = "setup"
    /\ Cardinality(ChannelHandles(2)) = 2
    /\ acquired[2] = 1
    /\ at8236_channels[2].step_state = 1
    /\ at8236_channels[2].dir_state = 1
    /\ <<HighLevel(2), LowLevel(2)>> = <<0, 1>>

----------------------------------------------------------------------------
(* Claims on the tick timer. *)

\* C4: for two successive calls of timer_read_time, from the mainline with
\* interrupts enabled or disabled or from the interrupt handler, whatever
\* ticks, roll-overs and handler runs come between them, the signed 32-bit
\* difference of the second result and the first is never negative.
C4_ReadTimeMonotonic ==
    reads.n = 2 => S32(Sub32(reads.cur, reads.prev)) >= 0

\* C5: every invocation of TIM2_IRQHandler increases timer_base by exactly
\* the hardware period that just elapsed: one roll-over was waiting for it,
\* not two (a period skipped), and the amount added is that period's length.
C5_FoldsOnePeriod ==
    fold.n = 1 =>
        /\ fold.pending = 1
        /\ fold.after = Add32(fold.before, U32(fold.len))

\* the period the description requires for a deadline: max(2, signed32(next - now))
ClampedDelay(next, now) ==
    LET d == S32(Sub32(next, now))
    IN  IF d > 2 THEN d ELSE 2

\* C6: when schedule_next(next) returns, the period programmed into the timer
\* is max(2, signed32(next - now)), and it is at least 2 ticks.
C6_PeriodClamped ==
    sn.st = "returned" =>
        /\ TIM_ATRLR = ClampedDelay(sn.next, sn.now)
        /\ TIM_ATRLR >= 2

\* C7: after schedule_next(next) with next less than 2^31 ticks ahead of now,
\* the period-elapsed interrupt is not raised before the time reaches next:
\* at least next - now ticks have passed since now was read.
C7_NotRaisedEarly ==
    (sn.raised /\ S32(Sub32(sn.next, sn.now)) >= 0) =>
        sn.ticks >= S32(Sub32(sn.next, sn.now))

\* C8: schedule_next does not change the current time: at its return
\* timer_base is the time read on entry and the counter is 0, the time equals
\* the time read on entry plus the ticks that have passed since (none gained,
\* none lost), and the update event was issued last, after the stores of the
\* period and of the zeroed counter.
C8_TimeUnchanged ==
    sn.st = "returned" =>
        /\ sn.retTime = sn.now
        /\ sn.retTime = Add32(sn.now, U32(sn.retTicks))
        /\ sn.log = <<"timer_base", "ATRLR", "CNT", "SWEVGR">>

----------------------------------------------------------------------------
(* Claims on setjmp and longjmp. *)

\* C11: the call site of setjmp sees the return value 0 on the direct return;
\* after longjmp(env, v) it sees a second return, of v when v is not 0 and of
\* 1 when v is 0, so never of 0.
C11_SecondReturnValue ==
    /\ Len(jhist.rets) >= 1 => jhist.rets[1] = 0
    /\ Len(jhist.rets) = 2 =>
          /\ jhist.rets[2] = (IF jhist.val # 0 THEN jhist.val ELSE 1)
          /\ jhist.rets[2] # 0

\* setjmp, then longjmp(env, 0): the second return is seen, with value 1
C11_Witness ==
    /\ Len(jhist.rets) = 2
    /\ jhist.val = 0
    /\ jhist.rets = <<0, 1>>

\* C12: after setjmp(env), any changes of the registers and longjmp(env, v),
\* each of ra, sp, s0..s11 holds the value it had at setjmp, control is at
\* the return address saved by setjmp, and control never reaches the return
\* address of the longjmp call.
C12_ContextRestored ==
    /\ cpu["pc"] # LongjmpSite
    /\ jhist.jumps = 1 => \A r \in SavedRegs : cpu[r] = jhist.snap[r]
    /\ (jhist.jumps = 1 /\ Len(jhist.rets) = 1) => cpu["pc"] = jhist.snap["ra"]

\* s0 and s1 differed at setjmp, s0 and sp were changed before longjmp, and
\* longjmp has run
C12_Witness ==
    /\ jhist.jumps = 1
    /\ Len(jhist.rets) = 1
    /\ jhist.snap["s0"] # jhist.snap["s1"]
    /\ jhist.before["s0"] # jhist.snap["s0"]
    /\ jhist.before["ra"] # jhist.snap["ra"]
    /\ cpu["s0"] = jhist.snap["s0"]

----------------------------------------------------------------------------
(* Claims on udelay, the handler and the start-up of the timer. *)

----------------------------------------------------------------------------
(* Claims on the setup calls with invalid pins. *)

\* the pin is the pin of a row of pwm_map
HasPwmMapping(pin) ==
    \E k \in 1 .. Len(pwm_map(periph.have)) : pwm_map(periph.have)[k].pin = pin

IsAdcPin(pin) == \E k \in 1 .. Len(adc_pin_map) : adc_pin_map[k] = pin

\* C14: a setup called with an invalid pin never returns: gpio_in_setup and
\* gpio_peripheral return only for a pin of one of the five ports,
\* gpio_out_setup returns only handles of a virtual pin or of one of the five
\* ports, gpio_pwm_setup returns only for a pin that has a row in pwm_map,
\* gpio_adc_setup only for a pin of adc_pin_map.
C14_InvalidPinShutsDown ==
    /\ \A g \in handles : g.regs = NULL \/ g.regs \in Ports
    /\ last.op \in {"gpio_in_setup", "gpio_peripheral"} =>
           ~gpio_pin_invalid(last.pin)
    /\ last.op = "gpio_pwm_setup" => HasPwmMapping(last.pin)
    /\ last.op = "gpio_adc_setup" => IsAdcPin(last.pin)

\* the part of C14 on the digital pins: a setup of a pin outside the five
\* ports ends in shutdown and has written no GPIO register
InvalidGpioWritesNothing ==
    [][(gpc' = "shutdown" /\ gop'.op \in {"gpio_out_setup", "gpio_in_setup",
                                          "gpio_peripheral"})
           => UNCHANGED <<OUTDR, CFG, at8236_channels>>]_vars

----------------------------------------------------------------------------
(* Claims on the handler of the period-elapsed interrupt. *)

\* the statements of schedule_next, called by the handler
InScheduleNext(c) == c.pc \in {"sn_ld1", "sn_ld2", "sn_st"}

\* C15: an invocation of TIM2_IRQHandler does, in this order and once each:
\* clear the update flag, add the period to timer_base, irq_disable,
\* timer_dispatch_many, schedule_next with the deadline returned, irq_enable;
\* timer_dispatch_many and schedule_next run with interrupts disabled.
C15_HandlerSequence ==
    LET order == <<"clear_flag", "add_period", "irq_disable",
                   "timer_dispatch_many", "schedule_next", "irq_enable">>
    IN  \A i \in 1 .. Len(hstk) :
            LET c == hstk[i]
            IN  /\ c.steps = SubSeq(order, 1, Len(c.steps))
                /\ c.pc = "h_ret" => c.steps = order
                /\ (i = Len(hstk) /\ (c.pc \in {"h_disp", "h_sn"} \/ InScheduleNext(c)))
                       => mie = 0
                /\ (i = Len(hstk) /\ InScheduleNext(c)) => sn.next = c.next

C15_Witness ==
    /\ hstk # <<>>
    /\ hstk[Len(hstk)].pc = "h_ret"
    /\ sn.st = "returned"
    /\ mie = 1

\* the contexts that were preempted: all but the executing one
Preempted ==
    IF hstk = <<>> THEN {}
    ELSE {mctx} \cup {hstk[i] : i \in 1 .. (Len(hstk) - 1)}

\* C19: at most one activation of TIM2_IRQHandler is in progress at any time:
\* the handler is not entered again before the previous activation returned.
C19_SingleActivation == Len(hstk) <= 1

\* the rest of C19: a context is never preempted between the first and the
\* last store of a write sequence to timer_base, ATRLR and CNT (the
\* read-modify-write of the handler, schedule_next from its read of the clock)
WriteSequencesApart ==
    \A c \in Preempted : c.pc \notin {"h_fold", "sn_ld1", "sn_ld2", "sn_st"}

----------------------------------------------------------------------------
(* Claims on the start-up of the tick clock. *)

\* C16: timer_init runs once over the whole execution and timer_base is
\* zeroed only then.
C16_InitOnce == boot.inits <= 1 /\ boot.zeroed <= 1

\* the rest of C16: apart from the zeroing in timer_init, timer_base is
\* written by the handler and by schedule_next alone
TimerBaseWriters ==
    [][timer_base' # timer_base =>
          \/ boot.ti # 0 /\ timer_init[boot.ti] = "timer_base"
          \/ Cur.pc = "h_fold"
          \/ Cur.pc = "sn_st"]_vars

----------------------------------------------------------------------------
(* Claims on the routing of handles and on the isolation of channels. *)

\* the logical bit that the virtual pin decodes to, in machine state G
LogicalBit(G, pin) ==
    IF at8236_role(pin) # 0
    THEN G.ch[at8236_index(pin)].dir_state
    ELSE G.ch[at8236_index(pin)].step_state

\* the handles gpio_out_setup has returned, and the handle of PA8, whose bit
\* field (1 << 8) is the number of a virtual pin
PhysHandles ==
    {g \in handles : g.regs # NULL} \cup {[regs |-> 0, bit |-> GPIO2BIT(GPIO(0, 8))]}

\* C17: gpio_out_setup of a virtual pin p returns the handle (no registers,
\* bit = p); write, toggle and reset with that handle go to the virtual layer
\* and set, flip or set the logical bit p decodes to; with a physical handle
\* they go to the hardware functions and leave the channels alone.
C17_HandleRouting ==
    gpc = "idle" =>
        /\ \A pin \in UsedVirtualPins, val \in Vals :
               gpio_out_setup(GState, pin, val).ret = [regs |-> NULL, bit |-> pin]
        /\ \A g \in handles : g.regs = NULL => g.bit \in UsedVirtualPins
        /\ \A g \in handles, val \in Vals :
               g.regs = NULL =>
                   /\ gpio_out_write(GState, g, val) = at8236_write(GState, g.bit, val)
                   /\ gpio_out_reset(GState, g, val) = at8236_write(GState, g.bit, val)
                   /\ gpio_out_toggle_noirq(GState, g) = at8236_toggle(GState, g.bit)
                   /\ gpio_out_toggle(GState, g) = at8236_toggle(GState, g.bit)
                   /\ LogicalBit(gpio_out_write(GState, g, val), g.bit) = Bool01(val)
                   /\ LogicalBit(gpio_out_reset(GState, g, val), g.bit) = Bool01(val)
                   /\ LogicalBit(gpio_out_toggle(GState, g), g.bit)
                          = 1 - LogicalBit(GState, g.bit)
        /\ \A g \in PhysHandles, val \in Vals :
               /\ gpio_out_write(GState, g, val) = gpio_out_write_hw(GState, g, val)
               /\ gpio_out_reset(GState, g, val) = gpio_out_reset_hw(GState, g, val)
               /\ gpio_out_toggle_noirq(GState, g)
                      = gpio_out_toggle_noirq_hw(GState, g)
               /\ gpio_out_write(GState, g, val).ch = at8236_channels
               /\ gpio_out_reset(GState, g, val).ch = at8236_channels
               /\ gpio_out_toggle(GState, g).ch = at8236_channels

\* a toggle through a virtual handle is done, and a physical handle exists
C17_Witness ==
    /\ last.op = "toggle"
    /\ last.virt
    /\ \E g \in handles : g.regs # NULL
    /\ \E g \in handles : g.regs = NULL /\ LogicalBit(GState, g.bit) = 1

\* C18: with a virtual handle, gpio_out_reset(h, v) and gpio_out_write(h, v)
\* end in the same logical bits and the same physical pins.
C18_ResetIsWrite ==
    gpc = "idle" =>
        \A g \in handles, val \in Vals :
            IsVirtualHandle(g) =>
                LET A == gpio_out_reset(GState, g, val)
                    B == gpio_out_write(GState, g, val)
                IN  /\ A.ch = B.ch
                    /\ A.OUTDR = B.OUTDR
                    /\ A.CFG = B.CFG

\* a reset through a virtual handle is done, on a channel with both bits set
C18_Witness ==
    /\ last.op = "reset"
    /\ last.virt
    /\ at8236_channels[last.ch].step_state = 1
    /\ at8236_channels[last.ch].dir_state = 1

\* the pins of the five ports that are not the two physical pins of channel idx
PinsOutside(idx) ==
    {pin \in 0 .. (NumPorts * 16 - 1) : pin \notin {high_map(idx), low_map(idx)}}

\* machine state H differs from G at most in the logical bit of the virtual
\* pin and in the two physical pins of its channel
OnlyChannelOf(pin, G, H) ==
    LET idx == at8236_index(pin)
    IN  /\ \A q \in VirtualPins \ {pin} : LogicalBit(H, q) = LogicalBit(G, q)
        /\ \A j \in Channels \ {idx} : H.ch[j] = G.ch[j]
        /\ \A q \in PinsOutside(idx) :
               /\ BitIsSet(H.OUTDR[GPIO2PORT(q)], GPIO2BIT(q))
                      = BitIsSet(G.OUTDR[GPIO2PORT(q)], GPIO2BIT(q))
               /\ H.CFG[GPIO2PORT(q)][q % 16] = G.CFG[GPIO2PORT(q)][q % 16]

\* C20: a setup, write, toggle or reset on the virtual pin of channel i and
\* role r changes the bit of role r of channel i and the two physical pins of
\* channel i and nothing else: the bit of the other role, the other channels
\* and every other pin stay as they are; an operation on a physical pin
\* changes no logical state of a channel.
C20_ChannelIsolation ==
    gpc = "idle" =>
        /\ \A pin \in UsedVirtualPins, val \in Vals :
               OnlyChannelOf(pin, GState, gpio_out_setup(GState, pin, val))
        /\ \A g \in handles, val \in Vals :
               IsVirtualHandle(g) =>
                   /\ OnlyChannelOf(g.bit, GState, gpio_out_write(GState, g, val))
                   /\ OnlyChannelOf(g.bit, GState, gpio_out_reset(GState, g, val))
                   /\ OnlyChannelOf(g.bit, GState, gpio_out_toggle(GState, g))
                   /\ OnlyChannelOf(g.bit, GState, gpio_out_toggle_noirq(GState, g))
        /\ \A pin \in PhysPins, val \in Vals :
               LET H == gpio_out_setup(GState, pin, val)
               IN  \A i \in Channels :
                       /\ H.ch[i].step_state = at8236_channels[i].step_state
                       /\ H.ch[i].dir_state = at8236_channels[i].dir_state
                       /\ H.ch[i].configured = at8236_channels[i].configured
        /\ \A i \in Channels :
               at8236_channels[i].configured = 0 =>
                   at8236_channels[i].step_state = 0
                   /\ at8236_channels[i].dir_state = 0

\* the dir pin of channel 2 is set up after its step pin was set to 1, with
\* channel 0 configured and driven
C20_Witness ==
    /\ last.op = "setup"
    /\ last.virt
    /\ last.ch = 2
    /\ ChannelHandles(2) = {VirtualHandle(BMCU_C_MOTOR_STEP(2)),
                            VirtualHandle(BMCU_C_MOTOR_DIR(2))}
    /\ at8236_channels[2].step_state = 1
    /\ at8236_channels[2].dir_state = 0
    /\ at8236_channels[0].configured = 1
    /\ at8236_channels[0].step_state = 1

----------------------------------------------------------------------------
(* Claims on the digital outputs with an interrupt handler. *)

\* the handler's calls recorded in last
IrqOps == {"irq_write", "irq_toggle"}

\* the levels of high_pin and low_pin of channel idx
PinPair(idx) == <<HighLevel(idx), LowLevel(idx)>>

\* the output function of the logical bits of channel idx
ExpectedPair(idx) ==
    ExpectedLevels(at8236_channels[idx].step_state,
                   at8236_channels[idx].dir_state)

\* a gpio_out_write of the mainline on channel idx is in progress and a
\* handler has made its call on that channel since the write began
IrqInWrite(idx) ==
    /\ gop.op = "write"
    /\ at8236_index(gop.pin) = idx
    /\ last.op \in IrqOps

\* C21: when a handler has called gpio_out_write or gpio_out_toggle on a
\* virtual pin of a channel during a gpio_out_write of the mainline on that
\* channel, high_pin and low_pin of the channel are not both 1, and at the
\* return of the mainline call the two pins are the output function of the
\* final step_state and dir_state.
C21_IrqDuringWrite ==
    [][\A idx \in Channels : IrqInWrite(idx) =>
          /\ PinPair(idx)' # <<1, 1>>
          /\ gpc' = "idle" => PinPair(idx)' = ExpectedPair(idx)']_vars

\* the two parts of C21 apart
IrqNeverBoth ==
    \A idx \in Channels : IrqInWrite(idx) => PinPair(idx) # <<1, 1>>

IrqFinalLevels ==
    [][\A idx \in Channels : IrqInWrite(idx) /\ gpc' = "idle" =>
          PinPair(idx)' = ExpectedPair(idx)']_vars

----------------------------------------------------------------------------
(* Claims on the calls on a physical pin, step by step. *)

\* a call of one of the functions ops on a physical pin is in progress
PortCallOf(ops) == gpc \in PortStepNames /\ gop.op \in ops

\* the bits of the port of the call other than the bit of its pin
OtherBits(outdr) ==
    BitClear(outdr[gpio_pin_to_regs(gop.pin)], GPIO2BIT(gop.pin))

TargetBit(outdr) ==
    IF BitIsSet(outdr[gpio_pin_to_regs(gop.pin)], GPIO2BIT(gop.pin)) THEN 1 ELSE 0

PinMode(cfg, pin) == cfg[gpio_pin_to_regs(pin)][pin % 16]

\* C23: gpio_out_setup and gpio_out_reset on a physical pin store the level,
\* load and store the configuration register with interrupts disabled, the
\* level is on the pin when the mode changes, the store changes the mode
\* field of the pin of the call alone and makes it a push-pull output, and
\* the call returns with mstatus.MIE as on entry.
C23_ResetMasked ==
    [][PortCallOf({"setup", "reset"}) =>
          /\ gpc \in {"store_bit", "load_cfg", "store_cfg"} => mie = 0
          /\ CFG' # CFG =>
                /\ TargetBit(OUTDR) = gop.val
                /\ \A q \in 0 .. (16 * NumPorts - 1) :
                      q # gop.pin => PinMode(CFG', q) = PinMode(CFG, q)
          /\ gpc' = "idle" =>
                /\ mie' = gop.flag
                /\ TargetBit(OUTDR') = gop.val
                /\ PinMode(CFG', gop.pin) =
                      GPIO_CONFIG(GPIO_MODE_OUTPUT_50MHZ, GPIO_CNF_GP_PUSHPULL)]_vars

\* gpio_out_reset called with interrupts enabled is about to restore them,
\* after it has changed the level of a pin whose neighbours are configured
C23_Witness ==
    /\ PortCallOf({"reset"})
    /\ gpc = "irq_restore"
    /\ gop.flag = 1 /\ mie = 0
    /\ gop.val = 1
    /\ Cardinality(handles) = 3

----------------------------------------------------------------------------
(* Claim on the decoding of virtual pins. *)

\* C26: for every stride and every pin is_at8236_virtual accepts, the index
\* is one of the four entries of at8236_channels and the role is 0 or 1 (for
\* the stride of the build they are what at8236_index and is_at8236_virtual
\* give), and step_state and dir_state of every channel are 0 or 1.
C26_IndexInBounds ==
    /\ gop.op = "decode" =>
          /\ gop.lv[1] \in Channels
          /\ gop.lv[2] \in {0, 1}
          /\ gop.val = BMCU_C_AT8236_PIN_STRIDE =>
                is_at8236_virtual(gop.pin) /\ gop.lv[1] = at8236_index(gop.pin)
    /\ \A i \in Channels :
          /\ at8236_channels[i].step_state \in {0, 1}
          /\ at8236_channels[i].dir_state \in {0, 1}

\* the last pin of the range with stride 3 is decoded, after calls with
\* values above 1 have set both bits of a channel
C26_Witness ==
    /\ gop.op = "decode"
    /\ gop.val = 3
    /\ gop.pin = AT8236_VIRTUAL_MAX_stride(3) - 1
    /\ gop.lv = <<3, 1>>
    /\ \E i \in Channels :
          at8236_channels[i].step_state = 1 /\ at8236_channels[i].dir_state = 1

----------------------------------------------------------------------------
(* Claims on hard_pwm.c. *)

\* the rows of pwm_map for the pin gpio_pwm_setup received (all the rows of
\* one pin name the same timer and the same remap field)
PwmRowsOf(pin) ==
    LET map == pwm_map(periph.have)
    IN  {map[k] : k \in {j \in 1 .. Len(map) : map[j].pin = pin % 256}}

\* the remap field of the timer of row p, in a value of AFIO->PCFR1
RemapField(pcfr1, p) == MaskAnd(pcfr1, p.remap_mask)

\* an earlier gpio_pwm_setup has returned for a pin of the timer of row p:
\* it has enabled its channel
TimerInUse(p) == periph.chan[p.timer].CCER # {}

\* this step is a gpio_pwm_setup(pin, ...) that returns
PwmSetupReturns(pin) ==
    /\ gpc = "idle" /\ gpc' = "idle"
    /\ last' = Returned("gpio_pwm_setup", pin)
    /\ <<last, periph>>' # <<last, periph>>

\* this step is a gpio_pwm_setup(pin, ...) that ends in shutdown
PwmSetupShutsDown(pin) ==
    /\ gpc = "idle" /\ gpc' = "shutdown"
    /\ gop'.op = "gpio_pwm_setup" /\ gop'.pin = pin

\* C27: a gpio_pwm_setup that returns for a pin of a timer on which an
\* earlier call has returned leaves the remap field of that timer as the
\* earlier call left it (all of them use one remap value), and a call for a
\* pin that has no row with the remap value in use ends in shutdown and
\* leaves the remap field unchanged.
C27_OneRemapPerTimer ==
    [][\A pin \in PwmPins : \A p \in PwmRowsOf(pin) :
          TimerInUse(p) =>
             /\ PwmSetupReturns(pin) =>
                   RemapField(periph'.PCFR1, p) = RemapField(periph.PCFR1, p)
             /\ (PwmSetupReturns(pin) \/ PwmSetupShutsDown(pin))
                 /\ (\A q \in PwmRowsOf(pin) :
                        q.remap_value # RemapField(periph.PCFR1, q))
                 => /\ gpc' = "shutdown"
                    /\ RemapField(periph'.PCFR1, p) = RemapField(periph.PCFR1, p)]_vars

\* the two halves apart
RemapKept ==
    [][\A pin \in PwmPins : \A p \in PwmRowsOf(pin) :
          TimerInUse(p) /\ PwmSetupReturns(pin) =>
              RemapField(periph'.PCFR1, p) = RemapField(periph.PCFR1, p)]_vars

RemapConflictShutsDown ==
    [][\A pin \in PwmPins : \A p \in PwmRowsOf(pin) :
          /\ TimerInUse(p)
          /\ PwmSetupReturns(pin) \/ PwmSetupShutsDown(pin)
          /\ \A q \in PwmRowsOf(pin) : q.remap_value # RemapField(periph.PCFR1, q)
          => gpc' = "shutdown"]_vars

\* prescaler * period >= cycle_time: the period is at least the quotient of
\* cycle_time by the prescaler, rounded up
CoversCycle(cycle_time, prescaler, period) ==
    IF UMod32(cycle_time, prescaler) = 0
    THEN ~LT32(period, UDiv32(cycle_time, prescaler))
    ELSE LT32(UDiv32(cycle_time, prescaler), period)

\* C28: when compute_timer_period has returned for a cycle_time of
\* 1 .. 2^32-1, it has not divided by zero, the prescaler is at least 1, the
\* period is in 1 .. 65536, prescaler * period >= cycle_time, prescaler - 1
\* and period - 1 have not wrapped, and gpio_pwm_write has stored no compare
\* value above period - 1.
C28_PeriodInRange ==
    (gpc = "idle" /\ gop.op \in {"compute_timer_period", "gpio_pwm_write"}) =>
        /\ gop.flag = 0
        /\ gop.lv.prescaler >= 1
        /\ gop.lv.period # Z32 /\ ~LT32(U32(PWM_MAX), gop.lv.period)
        /\ CoversCycle(gop.lv.cycle_time, gop.lv.prescaler, gop.lv.period)
        /\ gop.lv.psc_reg = U32(gop.lv.prescaler - 1)
        /\ LT32(gop.lv.arr_reg, gop.lv.period)
        /\ ~LT32(gop.lv.arr_reg, gop.lv.ccr)

\* where the other model of compute_timer_period can be evaluated, the two
\* give the same prescaler and period
PeriodModelsAgree ==
    (gpc = "idle" /\ gop.op = "compute_timer_period"
        /\ gop.lv.cycle_time[1] <= 2) =>
        LET c == compute_timer_period(S32(gop.lv.cycle_time))
        IN  c.prescaler = gop.lv.prescaler /\ U32(c.period) = gop.lv.period

----------------------------------------------------------------------------
(* Termination of udelay. *)

\* C24: a call of udelay made with interrupts disabled returns, whatever its
\* argument, as long as the counter keeps counting.
C24_UdelayReturns == (mctx.fn = "udelay") ~> mctx.done

\* whatever the order of the steps: with interrupts disabled no call of
\* udelay with an argument of a period or more has returned
UdelayLongNeverReturns ==
    mctx.done => LT32(mctx.usecs, U32(TIM_ATRLR))

----------------------------------------------------------------------------
(* The chain of tick interrupts. *)

\* C25: every invocation of TIM2_IRQHandler re-arms the timer: when its
\* schedule_next has returned, the period in ATRLR is at least 2 ticks and
\* the counter is enabled.
C25_HandlerRearms ==
    (hstk # <<>> /\ Cur.fn = "irq" /\ Cur.pc = HandlerAfter("h_sn")) =>
        /\ TIM_ATRLR >= 2
        /\ boot.CEN = 1

----------------------------------------------------------------------------
(* The RS-485 driver-enable pin.  *)

\* C29: once serial_init has run, the driver-enable pin is high whenever a
\* byte has been written to the data register or is still being shifted out.
C29_DriverEnabled ==
    (usart.rs485_initialized = 1 /\ Transmitting(usart)) => usart.de = 1

\* the handler lowers the pin only in a step that finds TC in sr and TCIE
\* in CTLR1, and the mainline enables TXEIE only with the pin high
DirectionOrder ==
    [][/\ (usart.de = 1 /\ usart'.de = 0) =>
              (usart.hpc = "tc" /\ "TC" \in usart.sr /\ "TCIE" \in usart.CTLR1)
       /\ ("TXEIE" \notin usart.CTLR1 /\ "TXEIE" \in usart'.CTLR1) =>
              usart.mpc = "set_ctlr1"]_vars

\* C30: after a transmission the bus is released: the driver-enable pin,
\* once high, is eventually low with only the receive interrupt enabled.
C30_BusReleased ==
    (usart.de = 1) ~> (usart.de = 0 /\ usart.CTLR1 = CTLR1_FLAGS)

====
